---- MODULE Spec2Model ----
(***************************************************************************)
(* Pricing resolution, job material ledger and stock projection of the     *)
(* inventory backend, as a state machine over the relational store.        *)
(* Tables are sets of rows; a request that awaits the store more than once *)
(* is a process whose steps interleave with the steps of other requests.   *)
(* Writes issued through a transaction client stay in the transaction's    *)
(* private write set until it commits (read committed isolation).          *)
(***************************************************************************)
EXTENDS Integers, Sequences, FiniteSets, TLC

(* ------------------------------ bounds -------------------------------- *)
MaxPrice == 2
MaxRate == 1
MaxQty == 3
MaxStock == 4
MaxDay == 2
MaxVariants == 4

(* ----------------------------- identifiers ---------------------------- *)
Companies == {"c1", "c2"}
NoCompany == ""
NoLocation == ""
Procs == {1, 2}
JobUuids == {1, 2}
JobIds == {"J1", "J2"}
ClientNames == {"ann", "bob"}
Undefined == {}
NoType == ""

Roles == {"SUPERADMIN", "COMPANY", "EMPLOYEE"}
JobStatus == {"PENDING", "ORDERED", "COMPLETED", "HOLD", "CANCELLED", "ARCHIVED"}

AdminC1 == [userId |-> "u1", role |-> "COMPANY", companyId |-> "c1", locationId |-> "l1"]
AdminC2 == [userId |-> "u2", role |-> "COMPANY", companyId |-> "c2", locationId |-> "l2"]
EmployeeC1 == [userId |-> "u3", role |-> "EMPLOYEE", companyId |-> "c1", locationId |-> "l1"]
SuperAdmin == [userId |-> "u0", role |-> "SUPERADMIN", companyId |-> NoCompany, locationId |-> NoLocation]
Users == {AdminC1, AdminC2, EmployeeC1, SuperAdmin}

\* Callers whose token carries an employeeType, and a request without a token.
ManagerC1 == [userId |-> "u4", role |-> "EMPLOYEE", companyId |-> "c1", locationId |-> "l1",
              employeeType |-> "PRODUCTION_MANAGER"]
InstallerC1 == [userId |-> "u5", role |-> "EMPLOYEE", companyId |-> "c1", locationId |-> "l1",
                employeeType |-> "INSTALLER"]
ManagerC2 == [userId |-> "u6", role |-> "EMPLOYEE", companyId |-> "c2", locationId |-> "l2",
              employeeType |-> "PRODUCTION_MANAGER"]
Anonymous == [userId |-> "", role |-> "", companyId |-> NoCompany, locationId |-> NoLocation]
Callers == Users \cup {ManagerC1, InstallerC1, ManagerC2, Anonymous}

(* ------------------------------- state -------------------------------- *)
VARIABLES
  company,                  \* Company rows: id -> [preferredPriceEnabled]
  materialVariant,          \* MaterialVariant rows: id -> [type, regularPrice, preferredPrice, isActive]
  companyOverageOverride,   \* set of [companyId, variantId, overageRate]
  companyQuantityOverride,  \* set of [companyId, variantId, quantity]
  job,                      \* committed Job rows
  jobMaterial,              \* committed JobMaterial rows
  pc,                       \* per request slot: the await the request is suspended at
  req,                      \* per request slot: the arguments of the call
  tx,                       \* per request slot: uncommitted writes of its transaction
  resp,                     \* the response of the call that completed last
  invite,                   \* Invite rows: [id, email, token, accepted]
  userTable,                \* User rows: [id, email, isActive]
  tokenBlacklist,           \* TokenBlacklist rows: [token, reason]
  minted                    \* refresh tokens signed so far: [token, from]

vars == <<company, materialVariant, companyOverageOverride, companyQuantityOverride,
          job, jobMaterial, pc, req, tx, resp, invite, userTable, tokenBlacklist, minted>>

catalogVars == <<company, materialVariant, companyOverageOverride>>
ledgerVars == <<job, jobMaterial>>
procVars == <<pc, req, tx>>
authVars == <<invite, userTable, tokenBlacklist, minted>>

(* ------------------------------ helpers ------------------------------- *)
Max(a, b) == IF a >= b THEN a ELSE b

Range(s) == {s[i] : i \in DOMAIN s}

RECURSIVE SumSeq(_)
SumSeq(s) == IF s = <<>> THEN 0 ELSE Head(s) + SumSeq(Tail(s))

VariantIds == DOMAIN materialVariant

\* A MaterialVariant row as findMany/findUnique return it (include: { material: true }).
VariantRow(v) ==
  [id |-> v, variantId |-> v, type |-> materialVariant[v].type,
   regularPrice |-> materialVariant[v].regularPrice,
   preferredPrice |-> materialVariant[v].preferredPrice,
   isActive |-> materialVariant[v].isActive]

NoTx == [jobW |-> {}, del |-> FALSE, ins |-> {}]
NoReq == [op |-> "none"]

(* ------------------------- errors and guards -------------------------- *)
\* new AppError(message, statusCode) and new Error(message).
AppError(message, statusCode) ==
  [isAppError |-> TRUE, message |-> message, statusCode |-> statusCode]
PlainError(message) == [isAppError |-> FALSE, message |-> message, statusCode |-> 0]

\* Which of the keywords of errorHandler's fallback a message of the services
\* contains (message.includes).
Keywords(message) ==
  CASE message = "Job not found" -> {"not found"}
    [] message = "Material variant not found" -> {"not found"}
    [] message = "Invalid email or password" -> {"Invalid"}
    [] message = "Invalid refresh token" -> {"Invalid"}
    [] message = "User not found" -> {"not found"}
    [] OTHER -> {}

\* errorHandler: an AppError keeps its status; any other error starts at 500 and
\* the keyword tests run in order, a later match overwriting an earlier one.
errorHandler(err) ==
  IF err.isAppError
  THEN [status |-> err.statusCode, message |-> err.message]
  ELSE [status |-> IF "forbidden" \in Keywords(err.message) THEN 403
                   ELSE IF "unauthorized" \in Keywords(err.message) THEN 401
                   ELSE IF "Invalid" \in Keywords(err.message) THEN 400
                   ELSE IF "not found" \in Keywords(err.message) THEN 404
                   ELSE 500,
        message |-> err.message]

\* req.user.employeeType: undefined when the token carries none.
employeeTypeOf(user) ==
  IF "employeeType" \in DOMAIN user THEN user.employeeType ELSE ""

\* rbac requireCompanyAdminOrProductionManager: 0 when the request passes, else
\* the status of the AppError it throws.
requireCompanyAdminOrProductionManager(user) ==
  IF user = Anonymous THEN 401
  ELSE IF user.role = "COMPANY"
          \/ (user.role = "EMPLOYEE" /\ employeeTypeOf(user) = "PRODUCTION_MANAGER")
  THEN 0
  ELSE 403

(* ------------------------- Pricing Resolver --------------------------- *)
\* _applyOverageRates returning early whenever the company has no override.
applyOverageRatesNoOverride(variants, user) ==
  LET isCompanyUser == user.role = "COMPANY" \/ user.role = "EMPLOYEE" IN
  IF ~isCompanyUser \/ user.companyId = NoCompany
  THEN [i \in DOMAIN variants |->
          [variant |-> variants[i], effectivePrice |-> variants[i].regularPrice,
           companyOverageRate |-> Undefined]]
  ELSE
    LET usePreferredPrice ==
          /\ user.companyId \in DOMAIN company
          /\ company[user.companyId].preferredPriceEnabled = TRUE
        ids == {variants[i].id : i \in DOMAIN variants}
        overrides == {o \in companyOverageOverride :
                        o.companyId = user.companyId /\ o.variantId \in ids}
    IN
    IF overrides = {}
    THEN [i \in DOMAIN variants |->
            [variant |-> variants[i], effectivePrice |-> variants[i].regularPrice,
             companyOverageRate |-> Undefined]]
    ELSE [i \in DOMAIN variants |->
            [variant |-> variants[i],
             effectivePrice |-> IF usePreferredPrice THEN variants[i].preferredPrice
                                                     ELSE variants[i].regularPrice,
             companyOverageRate |->
               {o.overageRate : o \in {x \in overrides : x.variantId = variants[i].id}}]]

\* _applyOverageRates testing the override rate for truth instead of for
\* undefined: a rate of 0 is dropped like a missing row.
applyOverageRatesFalsyRate(variants, user) ==
  LET isCompanyUser == user.role = "COMPANY" \/ user.role = "EMPLOYEE" IN
  IF ~isCompanyUser \/ user.companyId = NoCompany
  THEN [i \in DOMAIN variants |->
          [variant |-> variants[i], effectivePrice |-> variants[i].regularPrice,
           companyOverageRate |-> Undefined]]
  ELSE
    LET usePreferredPrice ==
          /\ user.companyId \in DOMAIN company
          /\ company[user.companyId].preferredPriceEnabled = TRUE
        ids == {variants[i].id : i \in DOMAIN variants}
        overrides == {o \in companyOverageOverride :
                        o.companyId = user.companyId /\ o.variantId \in ids}
    IN
    IF overrides = {} /\ ~usePreferredPrice
    THEN [i \in DOMAIN variants |->
            [variant |-> variants[i], effectivePrice |-> variants[i].regularPrice,
             companyOverageRate |-> Undefined]]
    ELSE [i \in DOMAIN variants |->
            [variant |-> variants[i],
             effectivePrice |-> IF usePreferredPrice THEN variants[i].preferredPrice
                                                     ELSE variants[i].regularPrice,
             companyOverageRate |->
               {o.overageRate : o \in {x \in overrides :
                                         x.variantId = variants[i].id /\ x.overageRate # 0}}]]

\* _applyOverageRates taking the tier from the caller's token instead of the
\* Company row: every token of the model was minted in the initial state, where
\* preferredPriceEnabled is off for every company.
applyOverageRatesTokenTier(variants, user) ==
  LET isCompanyUser == user.role = "COMPANY" \/ user.role = "EMPLOYEE" IN
  IF ~isCompanyUser \/ user.companyId = NoCompany
  THEN [i \in DOMAIN variants |->
          [variant |-> variants[i], effectivePrice |-> variants[i].regularPrice,
           companyOverageRate |-> Undefined]]
  ELSE
    LET ids == {variants[i].id : i \in DOMAIN variants}
        overrides == {o \in companyOverageOverride :
                        o.companyId = user.companyId /\ o.variantId \in ids}
    IN
    [i \in DOMAIN variants |->
       [variant |-> variants[i], effectivePrice |-> variants[i].regularPrice,
        companyOverageRate |->
          {o.overageRate : o \in {x \in overrides : x.variantId = variants[i].id}}]]

\* MaterialVariantService._applyOverageRates over a list of variant rows.
applyOverageRates(variants, user) ==
  LET isCompanyUser == user.role = "COMPANY" \/ user.role = "EMPLOYEE" IN
  IF ~isCompanyUser \/ user.companyId = NoCompany
  THEN [i \in DOMAIN variants |->
          [variant |-> variants[i], effectivePrice |-> variants[i].regularPrice,
           companyOverageRate |-> Undefined]]
  ELSE
    LET usePreferredPrice ==
          /\ user.companyId \in DOMAIN company
          /\ company[user.companyId].preferredPriceEnabled = TRUE
        ids == {variants[i].id : i \in DOMAIN variants}
        overrides == {o \in companyOverageOverride :
                        o.companyId = user.companyId /\ o.variantId \in ids}
    IN
    IF overrides = {} /\ ~usePreferredPrice
    THEN [i \in DOMAIN variants |->
            [variant |-> variants[i], effectivePrice |-> variants[i].regularPrice,
             companyOverageRate |-> Undefined]]
    ELSE [i \in DOMAIN variants |->
            [variant |-> variants[i],
             effectivePrice |-> IF usePreferredPrice THEN variants[i].preferredPrice
                                                     ELSE variants[i].regularPrice,
             companyOverageRate |->
               {o.overageRate : o \in {x \in overrides : x.variantId = variants[i].id}}]]

\* MaterialVariantService._applyQuantityOverrides over the output of applyOverageRates.
applyQuantityOverrides(variants, user) ==
  LET isCompanyUser == user.role = "COMPANY" \/ user.role = "EMPLOYEE" IN
  IF ~isCompanyUser \/ user.companyId = NoCompany
  THEN [i \in DOMAIN variants |-> [view |-> variants[i], companyQuantity |-> Undefined]]
  ELSE
    LET ids == {variants[i].variant.id : i \in DOMAIN variants}
        overrides == {o \in companyQuantityOverride :
                        o.companyId = user.companyId /\ o.variantId \in ids}
    IN
    IF overrides = {}
    THEN [i \in DOMAIN variants |-> [view |-> variants[i], companyQuantity |-> Undefined]]
    ELSE [i \in DOMAIN variants |->
            [view |-> variants[i],
             companyQuantity |->
               {o.quantity : o \in {x \in overrides : x.variantId = variants[i].variant.id}}]]

\* The resolved view of one variant row.
ResolvedView(r) ==
  [id |-> r.view.variant.id,
   regularPrice |-> r.view.variant.regularPrice,
   preferredPrice |-> r.view.variant.preferredPrice,
   effectivePrice |-> r.view.effectivePrice,
   companyOverageRate |-> r.view.companyOverageRate,
   companyQuantity |-> r.companyQuantity,
   isActive |-> r.view.variant.isActive]

\* Variant ids ascending as a sequence (orderBy of the list queries).
RECURSIVE SortedSeq(_)
SortedSeq(S) ==
  IF S = {} THEN <<>>
  ELSE LET m == CHOOSE x \in S : \A y \in S : x <= y
       IN <<m>> \o SortedSeq(S \ {m})

\* MaterialVariantService.getVariantById: a sequence of zero (null) or one view.
getVariantById(id, user) ==
  IF id \notin VariantIds THEN <<>>
  ELSE LET withOverage == applyOverageRates(<<VariantRow(id)>>, user)
           withQuantity == applyQuantityOverrides(withOverage, user)
       IN <<ResolvedView(withQuantity[1])>>

\* MaterialVariantService.getMaterialVariants (all variants share one material).
getMaterialVariants(includeInactive, user) ==
  LET ids == {v \in VariantIds : includeInactive \/ materialVariant[v].isActive}
      order == SortedSeq(ids)
      rows == [i \in DOMAIN order |-> VariantRow(order[i])]
      withQuantity == applyQuantityOverrides(applyOverageRates(rows, user), user)
  IN [i \in DOMAIN withQuantity |-> ResolvedView(withQuantity[i])]

\* MaterialVariantService.getAllMaterialVariants, one page holding every match.
getAllMaterialVariants(includeInactive, user) ==
  LET ids == {v \in VariantIds :
                IF user.role # "SUPERADMIN" THEN materialVariant[v].isActive
                ELSE includeInactive \/ materialVariant[v].isActive}
      order == SortedSeq(ids)
      rows == [i \in DOMAIN order |-> VariantRow(order[i])]
      withQuantity == applyQuantityOverrides(applyOverageRates(rows, user), user)
  IN [i \in DOMAIN withQuantity |-> ResolvedView(withQuantity[i])]

(* -------------------------- Variant Catalog --------------------------- *)
\* An optional field of a request body: {} when absent, {x} when present.
OrElse(opt, cur) == IF opt = {} THEN cur ELSE CHOOSE x \in opt : TRUE

\* MaterialVariantService.createVariant: a new row with the next integer id,
\* active by default.
CreateVariant(data, user) ==
  /\ Cardinality(VariantIds) < MaxVariants
  /\ LET id == Cardinality(VariantIds) + 1 IN
     /\ materialVariant' =
          [v \in VariantIds \cup {id} |->
             IF v = id
             THEN [type |-> data.type, regularPrice |-> data.regularPrice,
                   preferredPrice |-> data.preferredPrice, isActive |-> TRUE]
             ELSE materialVariant[v]]
     /\ resp' = [op |-> "createVariant", status |-> 201, id |-> id]
  /\ UNCHANGED <<company, companyOverageOverride, companyQuantityOverride,
                 job, jobMaterial, pc, req, tx>>
  /\ UNCHANGED authVars

\* updateVariant that also rewrites the cost of the ledger lines of the variant.
UpdateVariantRecost(id, data, user) ==
  /\ IF getVariantById(id, user) = <<>>
     THEN /\ resp' = [op |-> "updateVariant", status |-> 404]
          /\ UNCHANGED <<materialVariant, jobMaterial>>
     ELSE /\ materialVariant' =
               [materialVariant EXCEPT
                  ![id].regularPrice = OrElse(data.regularPrice, @),
                  ![id].preferredPrice = OrElse(data.preferredPrice, @),
                  ![id].isActive = OrElse(data.isActive, @)]
          /\ jobMaterial' =
               {IF m.variantId = id
                THEN [m EXCEPT !.costAtTime = OrElse(data.regularPrice, @)] ELSE m :
                  m \in jobMaterial}
          /\ resp' = [op |-> "updateVariant", status |-> 200]
  /\ UNCHANGED <<company, companyOverageOverride, companyQuantityOverride,
                 job, pc, req, tx>>
  /\ UNCHANGED authVars

\* MaterialVariantService.updateVariant: absent fields are left as they are.
UpdateVariant(id, data, user) ==
  /\ IF getVariantById(id, user) = <<>>
     THEN /\ resp' = [op |-> "updateVariant", status |-> 404, message |-> "Material variant not found"]
          /\ UNCHANGED materialVariant
     ELSE /\ materialVariant' =
               [materialVariant EXCEPT
                  ![id].regularPrice = OrElse(data.regularPrice, @),
                  ![id].preferredPrice = OrElse(data.preferredPrice, @),
                  ![id].isActive = OrElse(data.isActive, @)]
          /\ resp' = [op |-> "updateVariant", status |-> 200]
  /\ UNCHANGED <<company, companyOverageOverride, companyQuantityOverride,
                 job, jobMaterial, pc, req, tx>>
  /\ UNCHANGED authVars

\* MaterialVariantService.deleteVariant: soft delete.
DeleteVariant(id) ==
  /\ IF id \notin VariantIds
     THEN /\ resp' = [op |-> "deleteVariant", status |-> 500, message |-> "P2025"]
          /\ UNCHANGED materialVariant
     ELSE /\ materialVariant' = [materialVariant EXCEPT ![id].isActive = FALSE]
          /\ resp' = [op |-> "deleteVariant", status |-> 200]
  /\ UNCHANGED <<company, companyOverageOverride, companyQuantityOverride,
                 job, jobMaterial, pc, req, tx>>
  /\ UNCHANGED authVars

\* One row of MaterialVariantService.importFromCsv whose (material, name) names
\* the variant row.id: an existing variant is updated in mode upsert and skipped
\* in mode create; isActive is not a column of the file.
RECURSIVE importRows(_, _, _)
importRows(rows, mode, catalog) ==
  IF rows = <<>> THEN catalog
  ELSE LET row == Head(rows)
           next == IF row.id \in DOMAIN catalog /\ mode = "upsert"
                   THEN [catalog EXCEPT ![row.id].regularPrice = row.regularPrice,
                                        ![row.id].preferredPrice = row.preferredPrice]
                   ELSE catalog
       IN importRows(Tail(rows), mode, next)

ImportFromCsv(rows, mode) ==
  /\ materialVariant' = importRows(rows, mode, materialVariant)
  /\ resp' = [op |-> "importFromCsv", status |-> 200]
  /\ UNCHANGED <<company, companyOverageOverride, companyQuantityOverride,
                 job, jobMaterial, pc, req, tx>>
  /\ UNCHANGED authVars

(* --------------------------- Override Store --------------------------- *)
\* The company's pricing-tier flag is set by the platform operator.
SetPreferredPriceEnabled(c, enabled) ==
  /\ c \in DOMAIN company
  /\ company' = [company EXCEPT ![c].preferredPriceEnabled = enabled]
  /\ resp' = [op |-> "setPreferredPriceEnabled", status |-> 200]
  /\ UNCHANGED <<materialVariant, companyOverageOverride, companyQuantityOverride,
                 job, jobMaterial, pc, req, tx>>
  /\ UNCHANGED authVars

\* Create-or-replace of the CompanyOverageOverride row of (company, variant).
UpsertOverageOverride(c, v, rate) ==
  /\ c \in DOMAIN company /\ v \in VariantIds
  /\ companyOverageOverride' =
       {o \in companyOverageOverride : ~(o.companyId = c /\ o.variantId = v)}
         \cup {[companyId |-> c, variantId |-> v, overageRate |-> rate]}
  /\ resp' = [op |-> "upsertOverageOverride", status |-> 200]
  /\ UNCHANGED <<company, materialVariant, companyQuantityOverride,
                 job, jobMaterial, pc, req, tx>>
  /\ UNCHANGED authVars

\* An upsert with no unique key behind it: every call inserts a row.
upsertQuantityInsert(rows, c, v, quantity) ==
  rows \cup {[companyId |-> c, variantId |-> v, quantity |-> quantity]}

\* The store's upsert on the unique key (companyId, variantId): one statement.
upsertQuantity(rows, c, v, quantity) ==
  IF \E o \in rows : o.companyId = c /\ o.variantId = v
  THEN {IF o.companyId = c /\ o.variantId = v
        THEN [o EXCEPT !.quantity = quantity] ELSE o : o \in rows}
  ELSE rows \cup {[companyId |-> c, variantId |-> v, quantity |-> quantity]}

\* StocksService.updateStock, first await: look the variant up by its integer id.
UpdateStock(p, user, variantId, inStock) ==
  /\ pc[p] = "idle"
  /\ IF variantId \notin VariantIds
     THEN /\ resp' = [op |-> "updateStock", status |-> 404, message |-> "Variant not found"]
          /\ UNCHANGED <<pc, req>>
     ELSE /\ pc' = [pc EXCEPT ![p] = "us_upsert"]
          /\ req' = [req EXCEPT ![p] = [op |-> "updateStock", companyId |-> user.companyId,
                                        variantId |-> variantId, inStock |-> inStock]]
          /\ UNCHANGED resp
  /\ UNCHANGED <<company, materialVariant, companyOverageOverride,
                 companyQuantityOverride, job, jobMaterial, tx>>
  /\ UNCHANGED authVars

\* StocksService.updateStock, second await: the upsert as one statement of the
\* store (INSERT .. ON CONFLICT (companyId, variantId) DO UPDATE).
UpdateStockUpsert(p) ==
  /\ pc[p] = "us_upsert"
  /\ companyQuantityOverride' =
       upsertQuantity(companyQuantityOverride, req[p].companyId, req[p].variantId,
                      req[p].inStock)
  /\ resp' = [op |-> "updateStock", status |-> 200,
              companyId |-> req[p].companyId, variantId |-> req[p].variantId,
              quantity |-> req[p].inStock]
  /\ pc' = [pc EXCEPT ![p] = "idle"]
  /\ req' = [req EXCEPT ![p] = NoReq]
  /\ UNCHANGED <<company, materialVariant, companyOverageOverride, job, jobMaterial, tx>>
  /\ UNCHANGED authVars

\* The same upsert when the client runs it as a read followed by a write: the
\* read of the row of the pair.
UpdateStockUpsertSelect(p) ==
  /\ pc[p] = "us_upsert"
  /\ pc' = [pc EXCEPT ![p] = "us_write"]
  /\ req' = [req EXCEPT ![p] =
               [op |-> "updateStock", companyId |-> req[p].companyId,
                variantId |-> req[p].variantId, inStock |-> req[p].inStock,
                found |-> \E o \in companyQuantityOverride :
                            o.companyId = req[p].companyId /\ o.variantId = req[p].variantId]]
  /\ UNCHANGED <<company, materialVariant, companyOverageOverride,
                 companyQuantityOverride, job, jobMaterial, tx, resp>>
  /\ UNCHANGED authVars

\* ... and its write: an update of the row it read, or an insert that the unique
\* key (companyId, variantId) rejects (P2002, answered 409) when another request
\* inserted the row in between.
UpdateStockUpsertWrite(p) ==
  /\ pc[p] = "us_write"
  /\ LET c == req[p].companyId
         v == req[p].variantId
         exists == \E o \in companyQuantityOverride : o.companyId = c /\ o.variantId = v
     IN IF ~req[p].found /\ exists
        THEN /\ resp' = [op |-> "updateStock", status |-> 409,
                         message |-> "Unique constraint failed"]
             /\ UNCHANGED companyQuantityOverride
        ELSE /\ companyQuantityOverride' =
                  upsertQuantity(companyQuantityOverride, c, v, req[p].inStock)
             /\ resp' = [op |-> "updateStock", status |-> 200, companyId |-> c,
                         variantId |-> v, quantity |-> req[p].inStock]
  /\ pc' = [pc EXCEPT ![p] = "idle"]
  /\ req' = [req EXCEPT ![p] = NoReq]
  /\ UNCHANGED <<company, materialVariant, companyOverageOverride, job, jobMaterial, tx>>
  /\ UNCHANGED authVars

(* ------------------------- resolver requests -------------------------- *)
\* A getVariantById that initialises the caller's quantity override on first read.
GetVariantByIdTouch(id, user) ==
  /\ resp' = [op |-> "getVariantById", user |-> user, id |-> id,
              status |-> IF getVariantById(id, user) = <<>> THEN 404 ELSE 200,
              body |-> getVariantById(id, user)]
  /\ companyQuantityOverride' =
       IF id \in VariantIds /\ user.companyId # NoCompany
          /\ ~\E o \in companyQuantityOverride :
                o.companyId = user.companyId /\ o.variantId = id
       THEN companyQuantityOverride \cup
              {[companyId |-> user.companyId, variantId |-> id, quantity |-> 0]}
       ELSE companyQuantityOverride
  /\ UNCHANGED <<company, materialVariant, companyOverageOverride,
                 job, jobMaterial, pc, req, tx>>
  /\ UNCHANGED authVars

\* GET /material-variants/:id: the controller's call of getVariantById.
GetVariantById(id, user) ==
  /\ resp' = [op |-> "getVariantById", user |-> user, id |-> id,
              status |-> IF getVariantById(id, user) = <<>> THEN 404 ELSE 200,
              body |-> getVariantById(id, user)]
  /\ UNCHANGED <<company, materialVariant, companyOverageOverride,
                 companyQuantityOverride, job, jobMaterial, pc, req, tx>>
  /\ UNCHANGED authVars

GetMaterialVariants(includeInactive, user) ==
  /\ resp' = [op |-> "getMaterialVariants", user |-> user, status |-> 200,
              body |-> getMaterialVariants(includeInactive, user)]
  /\ UNCHANGED <<company, materialVariant, companyOverageOverride,
                 companyQuantityOverride, job, jobMaterial, pc, req, tx>>
  /\ UNCHANGED authVars

GetAllMaterialVariants(includeInactive, user) ==
  /\ resp' = [op |-> "getAllMaterialVariants", user |-> user, status |-> 200,
              body |-> getAllMaterialVariants(includeInactive, user)]
  /\ UNCHANGED <<company, materialVariant, companyOverageOverride,
                 companyQuantityOverride, job, jobMaterial, pc, req, tx>>
  /\ UNCHANGED authVars

(* ------------------------- Job Material Ledger ------------------------ *)
\* config/job.config jobTemplates: template name -> required count per type.
jobTemplates ==
  [standard |-> <<[materialType |-> "base coat", requiredCount |-> 1],
                  [materialType |-> "top coat", requiredCount |-> 1],
                  [materialType |-> "broadcast", requiredCount |-> 1]>>]

TxPcs == {"cj_create", "cj_createMany", "cj_commit",
          "uj_update", "uj_findMany", "uj_deleteMany", "uj_createMany", "uj_commit"}
CreatePcs == {"cj_findMany", "cj_create", "cj_createMany", "cj_commit"}

\* Rows another open transaction has written and not yet committed.
UncommittedJobs(p) == UNION {tx[q].jobW : q \in Procs \ {p}}

\* prisma.materialVariant.findMany({ where: { variantId: { in: ids } } }).
findManyVariants(lines) ==
  {v \in VariantIds : \E i \in DOMAIN lines : lines[i].variantId = v}

\* The rows createMany builds from the submitted lines (jobs.service map callback).
jobMaterialsToCreate(jobUuid, lines) ==
  {[jobId |-> jobUuid, variantId |-> lines[i].variantId,
    quantityUsed |-> lines[i].quantityUsed, costAtTime |-> lines[i].cost] :
     i \in DOMAIN lines}

\* Unique index JobMaterial_jobId_variantId_key over the rows of one createMany.
LinesUnique(lines) ==
  \A i, k \in DOMAIN lines : lines[i].variantId = lines[k].variantId => i = k

\* Template validation of createJob: the error status, or 0 when the set passes.
templateStatus(data) ==
  IF data.jobTemplateName = {} THEN 0
  ELSE LET name == CHOOSE n \in data.jobTemplateName : TRUE IN
       IF name \notin DOMAIN jobTemplates THEN 404
       ELSE LET found == findManyVariants(data.jobMaterials)
                countInJob(t) == Cardinality({v \in found : materialVariant[v].type = t})
                reqs == jobTemplates[name]
            IN IF \E i \in DOMAIN reqs :
                    countInJob(reqs[i].materialType) # reqs[i].requiredCount
               THEN 400 ELSE 0

\* The requirement the template loop stops at: the first one, in the template's
\* order, whose count in the job differs from the required count.
templateError(data) ==
  LET name == CHOOSE n \in data.jobTemplateName : TRUE
      found == findManyVariants(data.jobMaterials)
      countInJob(t) == Cardinality({v \in found : materialVariant[v].type = t})
      reqs == jobTemplates[name]
      bad == {i \in DOMAIN reqs : countInJob(reqs[i].materialType) # reqs[i].requiredCount}
      first == CHOOSE i \in bad : \A k \in bad : i <= k
  IN [materialType |-> reqs[first].materialType,
      expected |-> reqs[first].requiredCount,
      found |-> countInJob(reqs[first].materialType)]

Finish(p, r) ==
  /\ pc' = [pc EXCEPT ![p] = "idle"]
  /\ req' = [req EXCEPT ![p] = NoReq]
  /\ tx' = [tx EXCEPT ![p] = NoTx]
  /\ resp' = r

\* JobsService.createJob up to its first query: role and company checks, then
\* the duplicate jobId lookup.
CreateJob(p, data, user) ==
  /\ pc[p] = "idle"
  /\ Cardinality(job) + Cardinality({q \in Procs : pc[q] \in CreatePcs}) <
       Cardinality(JobUuids)
  /\ IF user.role # "COMPANY"
     THEN Finish(p, [op |-> "createJob", status |-> 403, message |-> "Only company admins can create jobs.",
                     user |-> user])
     ELSE IF user.companyId = NoCompany \/ user.locationId = NoLocation
     THEN Finish(p, [op |-> "createJob", status |-> 400, message |-> "User does not belong to a company or location."])
     ELSE IF \E j \in job : j.jobId = data.jobId /\ j.companyId = user.companyId
     THEN Finish(p, [op |-> "createJob", status |-> 409, message |-> "Job ID already exists for this company."])
     ELSE /\ pc' = [pc EXCEPT ![p] = "cj_findMany"]
          /\ req' = [req EXCEPT ![p] = [op |-> "createJob", user |-> user, data |-> data]]
          /\ UNCHANGED <<tx, resp>>
  /\ UNCHANGED <<company, materialVariant, companyOverageOverride,
                 companyQuantityOverride, job, jobMaterial>>
  /\ UNCHANGED authVars

\* POST /jobs: authenticateToken and the route guard, then the controller's call
\* of createJob.
PostJob(p, data, user) ==
  IF requireCompanyAdminOrProductionManager(user) # 0
  THEN /\ pc[p] = "idle"
       /\ Finish(p, [op |-> "postJob", status |-> requireCompanyAdminOrProductionManager(user),
                     message |-> IF user = Anonymous THEN "Access token is required"
                                 ELSE "Access denied. Required role: Company Admin or Production Manager",
                     user |-> user])
       /\ UNCHANGED <<company, materialVariant, companyOverageOverride,
                      companyQuantityOverride, job, jobMaterial>>
       /\ UNCHANGED authVars
  ELSE CreateJob(p, data, user)

\* A variant check that looks every submitted id up in the rows found instead
\* of comparing the two lengths.
CreateJobFindManyByMap(p) ==
  /\ pc[p] = "cj_findMany"
  /\ LET lines == req[p].data.jobMaterials IN
     IF \E i \in DOMAIN lines : lines[i].variantId \notin findManyVariants(lines)
     THEN Finish(p, [op |-> "createJob", status |-> 404, message |-> "One or more material variants not found."])
     ELSE /\ pc' = [pc EXCEPT ![p] = "cj_create"]
          /\ UNCHANGED <<req, tx, resp>>
  /\ UNCHANGED <<company, materialVariant, companyOverageOverride,
                 companyQuantityOverride, job, jobMaterial>>
  /\ UNCHANGED authVars

\* createJob step 1 and 2: variant lookup, length check, template validation.
CreateJobFindMany(p) ==
  /\ pc[p] = "cj_findMany"
  /\ LET lines == req[p].data.jobMaterials IN
     IF Cardinality(findManyVariants(lines)) # Len(lines)
     THEN Finish(p, [op |-> "createJob", status |-> 404, message |-> "One or more material variants not found."])
     ELSE IF templateStatus(req[p].data) # 0
     THEN Finish(p, [op |-> "createJob", status |-> templateStatus(req[p].data),
                     message |-> IF templateStatus(req[p].data) = 404
                                 THEN "Job template not found."
                                 ELSE "Job validation failed for template",
                     detail |-> IF templateStatus(req[p].data) = 404
                                THEN [materialType |-> NoType, expected |-> 0, found |-> 0]
                                ELSE templateError(req[p].data)])
     ELSE /\ pc' = [pc EXCEPT ![p] = "cj_create"]
          /\ UNCHANGED <<req, tx, resp>>
  /\ UNCHANGED <<company, materialVariant, companyOverageOverride,
                 companyQuantityOverride, job, jobMaterial>>
  /\ UNCHANGED authVars

\* A job.create that takes companyId from the request data when it has one.
NewJobRowFromData(uuid, data, user) ==
  [id |-> uuid, jobId |-> data.jobId, companyId |-> OrElse(data.companyId, user.companyId),
   locationId |-> user.locationId, createdByUserId |-> user.userId,
   clientFirstName |-> data.clientFirstName, installDate |-> data.installDate,
   status |-> "PENDING"]

\* The Job row job.create inserts.
NewJobRow(uuid, data, user) ==
  [id |-> uuid, jobId |-> data.jobId, companyId |-> user.companyId,
   locationId |-> user.locationId, createdByUserId |-> user.userId,
   clientFirstName |-> data.clientFirstName, installDate |-> data.installDate,
   status |-> "PENDING"]

\* job.create with no unique index on (jobId, companyId).
CreateJobCreateNoIndex(p) ==
  /\ pc[p] = "cj_create"
  /\ LET uuid == CHOOSE u \in JobUuids :
                   /\ \A j \in job \cup UncommittedJobs(p) : j.id # u
                   /\ \A w \in JobUuids :
                        (\A j \in job \cup UncommittedJobs(p) : j.id # w) => u <= w
     IN /\ tx' = [tx EXCEPT ![p].jobW = {NewJobRow(uuid, req[p].data, req[p].user)}]
        /\ pc' = [pc EXCEPT ![p] = "cj_createMany"]
        /\ UNCHANGED <<req, resp>>
  /\ UNCHANGED <<company, materialVariant, companyOverageOverride,
                 companyQuantityOverride, job, jobMaterial>>
  /\ UNCHANGED authVars

\* job.create issued on the global client instead of the transaction client.
CreateJobCreateOutsideTx(p) ==
  /\ pc[p] = "cj_create"
  /\ LET data == req[p].data
         user == req[p].user
         uuid == CHOOSE u \in JobUuids :
                   /\ \A j \in job \cup UncommittedJobs(p) : j.id # u
                   /\ \A w \in JobUuids :
                        (\A j \in job \cup UncommittedJobs(p) : j.id # w) => u <= w
     IN
     /\ ~\E j \in UncommittedJobs(p) : j.jobId = data.jobId /\ j.companyId = user.companyId
     /\ IF \E j \in job : j.jobId = data.jobId /\ j.companyId = user.companyId
        THEN /\ Finish(p, [op |-> "createJob", status |-> 409,
                           message |-> "P2002 jobId, companyId"])
             /\ UNCHANGED job
        ELSE /\ tx' = [tx EXCEPT ![p].jobW = {NewJobRow(uuid, data, user)}]
             /\ job' = job \cup {NewJobRow(uuid, data, user)}
             /\ pc' = [pc EXCEPT ![p] = "cj_createMany"]
             /\ UNCHANGED <<req, resp>>
  /\ UNCHANGED <<company, materialVariant, companyOverageOverride,
                 companyQuantityOverride, jobMaterial>>
  /\ UNCHANGED authVars

\* createJob step 3, inside the transaction: job.create. The unique index
\* Job_jobId_companyId_key makes the insert wait for an open transaction holding
\* the same key and fail when the key is committed.
CreateJobCreate(p) ==
  /\ pc[p] = "cj_create"
  /\ LET data == req[p].data
         user == req[p].user
         uuid == CHOOSE u \in JobUuids :
                   /\ \A j \in job \cup UncommittedJobs(p) : j.id # u
                   /\ \A w \in JobUuids :
                        (\A j \in job \cup UncommittedJobs(p) : j.id # w) => u <= w
     IN
     /\ ~\E j \in UncommittedJobs(p) : j.jobId = data.jobId /\ j.companyId = user.companyId
     /\ IF \E j \in job : j.jobId = data.jobId /\ j.companyId = user.companyId
        THEN Finish(p, [op |-> "createJob", status |-> 409, message |-> "P2002 jobId, companyId"])
        ELSE /\ tx' = [tx EXCEPT ![p].jobW = {NewJobRow(uuid, data, user)}]
             /\ pc' = [pc EXCEPT ![p] = "cj_createMany"]
             /\ UNCHANGED <<req, resp>>
  /\ UNCHANGED <<company, materialVariant, companyOverageOverride,
                 companyQuantityOverride, job, jobMaterial>>
  /\ UNCHANGED authVars

\* createJob, inside the transaction: jobMaterial.createMany.
CreateJobCreateMany(p) ==
  /\ pc[p] = "cj_createMany"
  /\ LET header == CHOOSE j \in tx[p].jobW : TRUE
         lines == req[p].data.jobMaterials
     IN
     IF ~LinesUnique(lines)
     THEN Finish(p, [op |-> "createJob", status |-> 409, message |-> "P2002 jobId, variantId"])
     ELSE /\ tx' = [tx EXCEPT ![p].ins = jobMaterialsToCreate(header.id, lines)]
          /\ pc' = [pc EXCEPT ![p] = "cj_commit"]
          /\ UNCHANGED <<req, resp>>
  /\ UNCHANGED <<company, materialVariant, companyOverageOverride,
                 companyQuantityOverride, job, jobMaterial>>
  /\ UNCHANGED authVars

\* A createJob commit that also draws the consumed quantities from the company's
\* on-hand overrides.
CreateJobCommitConsume(p) ==
  /\ pc[p] = "cj_commit"
  /\ job' = job \cup tx[p].jobW
  /\ jobMaterial' = jobMaterial \cup tx[p].ins
  /\ companyQuantityOverride' =
       {IF o.companyId = req[p].user.companyId
           /\ \E m \in tx[p].ins : m.variantId = o.variantId
        THEN [o EXCEPT !.quantity =
                @ - (CHOOSE m \in tx[p].ins : m.variantId = o.variantId).quantityUsed]
        ELSE o : o \in companyQuantityOverride}
  /\ Finish(p, [op |-> "createJob", status |-> 201])
  /\ UNCHANGED <<company, materialVariant, companyOverageOverride>>
  /\ UNCHANGED authVars

\* The callback of prisma.$transaction returns: the write set becomes visible.
CreateJobCommit(p) ==
  /\ pc[p] = "cj_commit"
  /\ job' = job \cup tx[p].jobW
  /\ jobMaterial' = jobMaterial \cup tx[p].ins
  /\ Finish(p, [op |-> "createJob", status |-> 201])
  /\ UNCHANGED <<company, materialVariant, companyOverageOverride, companyQuantityOverride>>
  /\ UNCHANGED authVars

\* A store error or a cancellation while the transaction is open: rollback.
Rollback(p) ==
  /\ pc[p] \in TxPcs
  /\ Finish(p, [op |-> req[p].op, status |-> 500, message |-> "transaction rolled back",
                at |-> pc[p]])
  /\ UNCHANGED <<company, materialVariant, companyOverageOverride,
                 companyQuantityOverride, job, jobMaterial>>
  /\ UNCHANGED authVars

JobById(id) == CHOOSE j \in job : j.id = id

\* Another open transaction holds the row lock of job id.
Locked(p, id) == \E j \in UncommittedJobs(p) : j.id = id

\* JobsService.updateJob, step 1 inside the transaction: fetch and verify ownership.
UpdateJob(p, id, data, user) ==
  /\ pc[p] = "idle"
  /\ IF ~\E j \in job : j.id = id
     THEN Finish(p, [op |-> "updateJob", status |-> 404, message |-> "Job not found"])
     ELSE IF user.role # "COMPANY" \/ JobById(id).companyId # user.companyId
     THEN Finish(p, [op |-> "updateJob", status |-> 403, message |-> "Access denied.",
                     user |-> user])
     ELSE /\ pc' = [pc EXCEPT ![p] = "uj_update"]
          /\ req' = [req EXCEPT ![p] = [op |-> "updateJob", user |-> user, id |-> id,
                                        data |-> data]]
          /\ UNCHANGED <<tx, resp>>
  /\ UNCHANGED <<company, materialVariant, companyOverageOverride,
                 companyQuantityOverride, job, jobMaterial>>
  /\ UNCHANGED authVars

\* A job.update that writes every scalar field, an absent one as its empty value.
scalarUpdateAll(row, data) ==
  [row EXCEPT !.jobId = IF data.jobId = {} THEN "" ELSE OrElse(data.jobId, @),
              !.clientFirstName = IF data.clientFirstName = {} THEN ""
                                  ELSE OrElse(data.clientFirstName, @),
              !.installDate = IF data.installDate = {} THEN 0
                              ELSE OrElse(data.installDate, @)]

\* The scalar fields job.update writes; absent fields keep the row's value.
scalarUpdate(row, data) ==
  [row EXCEPT !.jobId = OrElse(data.jobId, @),
              !.clientFirstName = OrElse(data.clientFirstName, @),
              !.installDate = OrElse(data.installDate, @)]

\* updateJob step 2: job.update of the scalar fields. The UPDATE takes the row
\* lock and checks the unique index Job_jobId_companyId_key.
UpdateJobUpdate(p) ==
  /\ pc[p] = "uj_update"
  /\ LET id == req[p].id
         newRow == scalarUpdate(JobById(id), req[p].data)
     IN
     /\ ~Locked(p, id)
     /\ ~\E j \in UncommittedJobs(p) :
            j.jobId = newRow.jobId /\ j.companyId = newRow.companyId
     /\ IF \E j \in job : j.id # id /\ j.jobId = newRow.jobId /\ j.companyId = newRow.companyId
        THEN Finish(p, [op |-> "updateJob", status |-> 409, message |-> "P2002 jobId, companyId"])
        ELSE /\ tx' = [tx EXCEPT ![p].jobW = {newRow}]
             /\ pc' = [pc EXCEPT ![p] = IF req[p].data.jobMaterials = {}
                                        THEN "uj_commit" ELSE "uj_findMany"]
             /\ UNCHANGED <<req, resp>>
  /\ UNCHANGED <<company, materialVariant, companyOverageOverride,
                 companyQuantityOverride, job, jobMaterial>>
  /\ UNCHANGED authVars

NewLines(p) == CHOOSE l \in req[p].data.jobMaterials : TRUE

\* updateJob step 3A: validate the incoming variants.
UpdateJobFindMany(p) ==
  /\ pc[p] = "uj_findMany"
  /\ IF Cardinality(findManyVariants(NewLines(p))) # Len(NewLines(p))
     THEN Finish(p, [op |-> "updateJob", status |-> 404, message |-> "One or more provided material variants not found."])
     ELSE /\ pc' = [pc EXCEPT ![p] = "uj_deleteMany"]
          /\ UNCHANGED <<req, tx, resp>>
  /\ UNCHANGED <<company, materialVariant, companyOverageOverride,
                 companyQuantityOverride, job, jobMaterial>>
  /\ UNCHANGED authVars

\* deleteMany issued on the global client instead of the transaction client.
UpdateJobDeleteManyOutsideTx(p) ==
  /\ pc[p] = "uj_deleteMany"
  /\ jobMaterial' = {m \in jobMaterial : m.jobId # req[p].id}
  /\ tx' = [tx EXCEPT ![p].del = TRUE]
  /\ pc' = [pc EXCEPT ![p] = IF Len(NewLines(p)) > 0 THEN "uj_createMany" ELSE "uj_commit"]
  /\ UNCHANGED <<req, resp>>
  /\ UNCHANGED <<company, materialVariant, companyOverageOverride,
                 companyQuantityOverride, job>>
  /\ UNCHANGED authVars

\* updateJob step 3B: jobMaterial.deleteMany({ where: { jobId: id } }).
UpdateJobDeleteMany(p) ==
  /\ pc[p] = "uj_deleteMany"
  /\ tx' = [tx EXCEPT ![p].del = TRUE]
  /\ pc' = [pc EXCEPT ![p] = IF Len(NewLines(p)) > 0 THEN "uj_createMany" ELSE "uj_commit"]
  /\ UNCHANGED <<req, resp>>
  /\ UNCHANGED <<company, materialVariant, companyOverageOverride,
                 companyQuantityOverride, job, jobMaterial>>
  /\ UNCHANGED authVars

\* updateJob step 3C: jobMaterial.createMany of the new set.
UpdateJobCreateMany(p) ==
  /\ pc[p] = "uj_createMany"
  /\ IF ~LinesUnique(NewLines(p))
     THEN Finish(p, [op |-> "updateJob", status |-> 409, message |-> "P2002 jobId, variantId"])
     ELSE /\ tx' = [tx EXCEPT ![p].ins = jobMaterialsToCreate(req[p].id, NewLines(p))]
          /\ pc' = [pc EXCEPT ![p] = "uj_commit"]
          /\ UNCHANGED <<req, resp>>
  /\ UNCHANGED <<company, materialVariant, companyOverageOverride,
                 companyQuantityOverride, job, jobMaterial>>
  /\ UNCHANGED authVars

\* updateJob step 4: the final read, then the transaction commits.
UpdateJobCommit(p) ==
  /\ pc[p] = "uj_commit"
  /\ job' = {j \in job : j.id # req[p].id} \cup tx[p].jobW
  /\ jobMaterial' =
       (IF tx[p].del THEN {m \in jobMaterial : m.jobId # req[p].id} ELSE jobMaterial)
         \cup tx[p].ins
  /\ Finish(p, [op |-> "updateJob", status |-> 200])
  /\ UNCHANGED <<company, materialVariant, companyOverageOverride, companyQuantityOverride>>
  /\ UNCHANGED authVars

\* JobsService.updateJobStatus: ownership check, then one UPDATE of the status.
UpdateJobStatus(id, status, user) ==
  /\ IF ~\E j \in job : j.id = id
     THEN /\ resp' = [op |-> "updateJobStatus", status |-> 404, message |-> "Job not found"]
          /\ UNCHANGED job
     ELSE IF user.role # "COMPANY"
     THEN /\ resp' = [op |-> "updateJobStatus", status |-> 500, message |-> "Only company admins can update job status."]
          /\ UNCHANGED job
     ELSE IF JobById(id).companyId # user.companyId
     THEN /\ resp' = [op |-> "updateJobStatus", status |-> 500, message |-> "Access denied."]
          /\ UNCHANGED job
     ELSE /\ ~Locked(0, id)
          /\ job' = {IF j.id = id THEN [j EXCEPT !.status = status] ELSE j : j \in job}
          /\ resp' = [op |-> "updateJobStatus", status |-> 200, user |-> user]
  /\ UNCHANGED <<company, materialVariant, companyOverageOverride,
                 companyQuantityOverride, jobMaterial, pc, req, tx>>
  /\ UNCHANGED authVars

\* JobsService.archiveJob: soft delete by status.
ArchiveJob(id, user) ==
  /\ IF ~\E j \in job : j.id = id
     THEN /\ resp' = [op |-> "archiveJob", status |-> 404, message |-> "Job not found"]
          /\ UNCHANGED job
     ELSE IF user.role # "COMPANY"
     THEN /\ resp' = [op |-> "archiveJob", status |-> 403, message |-> "Only company admins can archive jobs."]
          /\ UNCHANGED job
     ELSE IF JobById(id).companyId # user.companyId
     THEN /\ resp' = [op |-> "archiveJob", status |-> 403, message |-> "Access denied."]
          /\ UNCHANGED job
     ELSE /\ ~Locked(0, id)
          /\ job' = {IF j.id = id THEN [j EXCEPT !.status = "ARCHIVED"] ELSE j : j \in job}
          /\ resp' = [op |-> "archiveJob", status |-> 200, user |-> user]
  /\ UNCHANGED <<company, materialVariant, companyOverageOverride,
                 companyQuantityOverride, jobMaterial, pc, req, tx>>
  /\ UNCHANGED authVars

\* getJob answering "not found" for a job of another company.
getJobOtherCompanyAsMissing(id, user) ==
  IF ~\E j \in job : j.id = id
  THEN errorHandler(AppError("Job not found", 404))
  ELSE IF user.role # "SUPERADMIN" /\ JobById(id).companyId # user.companyId
  THEN errorHandler(AppError("Job not found", 404))
  ELSE [status |-> 200, job |-> JobById(id),
        jobMaterials |-> {m \in jobMaterial : m.jobId = id}]

\* JobsController.getJob over JobsService.getJob: the committed header with its
\* lines, scoped to the caller; a null from the service is the controller's 404,
\* the service's plain Error goes through errorHandler.
getJob(id, user) ==
  IF ~\E j \in job : j.id = id
  THEN errorHandler(AppError("Job not found", 404))
  ELSE IF user.role # "SUPERADMIN" /\ JobById(id).companyId # user.companyId
  THEN errorHandler(PlainError("Access denied: Job belongs to another company."))
  ELSE [status |-> 200, job |-> JobById(id),
        jobMaterials |-> {m \in jobMaterial : m.jobId = id}]

\* JobsController.getArchivedJobById over JobsService.getArchivedJobById: getJob
\* first (its error passes through), then null unless the job is ARCHIVED.
getArchivedJobById(id, user) ==
  IF ~\E j \in job : j.id = id
  THEN errorHandler(AppError("Archived job not found", 404))
  ELSE IF getJob(id, user).status # 200
  THEN getJob(id, user)
  ELSE IF getJob(id, user).job.status # "ARCHIVED"
  THEN errorHandler(AppError("Archived job not found", 404))
  ELSE getJob(id, user)

GetJob(id, user) ==
  /\ resp' = [op |-> "getJob", status |-> getJob(id, user).status,
              message |-> IF getJob(id, user).status = 200 THEN ""
                          ELSE getJob(id, user).message]
  /\ UNCHANGED <<company, materialVariant, companyOverageOverride,
                 companyQuantityOverride, job, jobMaterial, pc, req, tx>>
  /\ UNCHANGED authVars

GetArchivedJobById(id, user) ==
  /\ resp' = [op |-> "getArchivedJobById", status |-> getArchivedJobById(id, user).status,
              message |-> IF getArchivedJobById(id, user).status = 200 THEN ""
                          ELSE getArchivedJobById(id, user).message]
  /\ UNCHANGED <<company, materialVariant, companyOverageOverride,
                 companyQuantityOverride, job, jobMaterial, pc, req, tx>>
  /\ UNCHANGED authVars

(* --------------------- Demand Aggregator / Projector ------------------ *)
\* The orders in which findMany may return a set of rows.
RECURSIVE Perms(_)
Perms(S) ==
  IF S = {} THEN {<<>>}
  ELSE UNION {{<<x>> \o t : t \in Perms(S \ {x})} : x \in S}

\* The ledger lines of one job, as a sequence.
LinesOf(jobUuid) ==
  LET ids == {m.variantId : m \in {x \in jobMaterial : x.jobId = jobUuid}}
      order == SortedSeq(ids)
  IN [i \in DOMAIN order |->
        CHOOSE m \in jobMaterial : m.jobId = jobUuid /\ m.variantId = order[i]]

\* requiredQuantities.set(variantId, existing.required + quantityUsed): the Map
\* as a sequence of entries in insertion order.
addRequired(map, line) ==
  IF \E i \in DOMAIN map : map[i].variantId = line.variantId
  THEN [i \in DOMAIN map |->
          IF map[i].variantId = line.variantId
          THEN [map[i] EXCEPT !.required = @ + line.quantityUsed] ELSE map[i]]
  ELSE Append(map, [variantId |-> line.variantId, required |-> 0 + line.quantityUsed])

RECURSIVE aggregateLines(_, _)
aggregateLines(map, lines) ==
  IF lines = <<>> THEN map
  ELSE aggregateLines(addRequired(map, Head(lines)), Tail(lines))

RECURSIVE aggregateJobs(_, _)
aggregateJobs(map, jobs) ==
  IF jobs = <<>> THEN map
  ELSE aggregateJobs(aggregateLines(map, LinesOf(Head(jobs).id)), Tail(jobs))

\* stockQuantities: the override quantities of the company summed per variant.
RECURSIVE sumQuantity(_)
sumQuantity(rows) ==
  IF rows = {} THEN 0
  ELSE LET o == CHOOSE x \in rows : TRUE IN o.quantity + sumQuantity(rows \ {o})

\* stockQuantities filled from the override rows of every company.
stockQuantityAnyCompany(companyId, variantId) ==
  sumQuantity({o \in companyQuantityOverride : o.variantId = variantId})

stockQuantity(companyId, variantId) ==
  sumQuantity({o \in companyQuantityOverride :
                 o.companyId = companyId /\ o.variantId = variantId})

\* The where clause of the job query of getStockProjection.
projectionJobs(companyId, startDate, endDate) ==
  {j \in job : /\ j.companyId = companyId
               /\ j.installDate >= startDate
               /\ j.installDate <= endDate}

\* The projection without the floor at zero.
allProjectionsNoFloor(companyId, jobs) ==
  LET requiredQuantities == aggregateJobs(<<>>, jobs) IN
  [i \in DOMAIN requiredQuantities |->
     LET required == requiredQuantities[i].required
         inStock == stockQuantity(companyId, requiredQuantities[i].variantId)
     IN [variantId |-> requiredQuantities[i].variantId,
         inStock |-> inStock,
         useQty |-> required,
         toOrder |-> required - inStock]]

\* StocksService.getStockProjection before pagination; jobs is the sequence the
\* job query returned.
allProjections(companyId, jobs) ==
  LET requiredQuantities == aggregateJobs(<<>>, jobs) IN
  [i \in DOMAIN requiredQuantities |->
     LET required == requiredQuantities[i].required
         inStock == stockQuantity(companyId, requiredQuantities[i].variantId)
     IN [variantId |-> requiredQuantities[i].variantId,
         inStock |-> inStock,
         useQty |-> required,
         toOrder |-> Max(0, required - inStock)]]

\* StocksController.getStockProjection and the service call it makes.
GetStockProjection(user, companyId, startDate, endDate, jobs) ==
  /\ startDate <= endDate
  /\ Range(jobs) = projectionJobs(IF user.role = "SUPERADMIN" THEN companyId
                                  ELSE user.companyId, startDate, endDate)
  /\ Len(jobs) = Cardinality(Range(jobs))
  /\ LET target == IF user.role = "SUPERADMIN" THEN companyId ELSE user.companyId IN
     resp' = [op |-> "getStockProjection", status |-> 200, companyId |-> target,
              startDate |-> startDate, endDate |-> endDate,
              data |-> IF jobs = <<>> THEN <<>> ELSE allProjections(target, jobs)]
  /\ UNCHANGED <<company, materialVariant, companyOverageOverride,
                 companyQuantityOverride, job, jobMaterial, pc, req, tx>>
  /\ UNCHANGED authVars

(* ------------------------------ initial ------------------------------- *)
\* Catalog of two variants of one material, both tiers priced, no job yet.
Catalog2 ==
  [v \in {1, 2} |->
     [type |-> IF v = 1 THEN "base coat" ELSE "top coat",
      regularPrice |-> 2, preferredPrice |-> 1, isActive |-> TRUE]]

Init ==
  /\ company = [c \in Companies |-> [preferredPriceEnabled |-> FALSE]]
  /\ materialVariant = Catalog2
  /\ companyOverageOverride = {}
  /\ companyQuantityOverride = {}
  /\ job = {}
  /\ jobMaterial = {}
  /\ pc = [p \in Procs |-> "idle"]
  /\ req = [p \in Procs |-> NoReq]
  /\ tx = [p \in Procs |-> NoTx]
  /\ resp = [op |-> "none", status |-> 0]
  /\ invite = {}
  /\ userTable = {[id |-> 1, email |-> "admin@c1.io", isActive |-> TRUE]}
  /\ tokenBlacklist = {}
  /\ minted = {}

(* ----------------- specification: the pricing resolver ---------------- *)
Rates == {0, MaxRate}
PriceUpdates ==
  {[regularPrice |-> {MaxPrice}, preferredPrice |-> {pp}, isActive |-> {}] :
     pp \in {1, MaxPrice}}

NextPricing ==
  \/ \E c \in Companies, b \in BOOLEAN : SetPreferredPriceEnabled(c, b)
  \/ \E v \in VariantIds, r \in Rates : UpsertOverageOverride("c1", v, r)
  \/ \E v \in VariantIds, d \in PriceUpdates : UpdateVariant(v, d, SuperAdmin)
  \/ \E q \in {0, MaxStock} : UpdateStock(1, AdminC1, 1, q)
  \/ UpdateStockUpsert(1)
  \/ \E v \in VariantIds \cup {0}, u \in Users : GetVariantById(v, u)
  \/ \E u \in {EmployeeC1, SuperAdmin} : GetMaterialVariants(FALSE, u)
  \/ \E u \in {AdminC1, SuperAdmin} : GetAllMaterialVariants(FALSE, u)

SpecPricing == Init /\ [][NextPricing]_vars

(* ------------- specification: concurrent ledger requests -------------- *)
Line(v, q, c) == [variantId |-> v, quantityUsed |-> q, cost |-> c]

CreateData(jobId, template, lines) ==
  [jobId |-> jobId, clientFirstName |-> "ann", installDate |-> 1,
   jobTemplateName |-> template, jobMaterials |-> lines]

UpdateData(jobId, name, lines) ==
  [jobId |-> jobId, clientFirstName |-> name, installDate |-> {}, jobMaterials |-> lines]

\* Variant id 3 is not in the catalog.
CreateInputs ==
  {CreateData(k, {}, l) : k \in JobIds,
                          l \in {<<Line(1, 1, 1)>>, <<Line(1, 1, 1), Line(3, 1, 1)>>}}
    \cup {CreateData("J1", {"standard"}, <<Line(1, 1, 1), Line(2, 1, 1)>>)}

UpdateInputs ==
  {UpdateData({"J2"}, {}, {}),
   UpdateData({}, {"bob"}, {<<Line(2, 1, 1)>>}),
   UpdateData({}, {"bob"}, {<<Line(2, 1, 1), Line(3, 1, 1)>>}),
   UpdateData({}, {}, {<<>>})}

Next ==
  \/ \E p \in Procs, d \in CreateInputs : CreateJob(p, d, AdminC1)
  \/ \E p \in Procs : CreateJobFindMany(p)
  \/ \E p \in Procs : CreateJobCreate(p)
  \/ \E p \in Procs : CreateJobCreateMany(p)
  \/ \E p \in Procs : CreateJobCommit(p)
  \/ \E p \in Procs, id \in JobUuids, d \in UpdateInputs : UpdateJob(p, id, d, AdminC1)
  \/ \E p \in Procs : UpdateJobUpdate(p)
  \/ \E p \in Procs : UpdateJobFindMany(p)
  \/ \E p \in Procs : UpdateJobDeleteMany(p)
  \/ \E p \in Procs : UpdateJobCreateMany(p)
  \/ \E p \in Procs : UpdateJobCommit(p)
  \/ \E p \in Procs : Rollback(p)
  \/ \E id \in JobUuids, u \in {AdminC1, AdminC2} : GetJob(id, u)

Spec == Init /\ [][Next]_vars

(* ------------- specification: ledger cost against the catalog --------- *)
CostPriceUpdates ==
  {[regularPrice |-> {0}, preferredPrice |-> {0}, isActive |-> {}],
   [regularPrice |-> {MaxPrice}, preferredPrice |-> {1}, isActive |-> {TRUE}]}

CostCreateInputs ==
  {CreateData("J1", {}, <<Line(1, 1, c)>>) : c \in {1, MaxPrice}}

CostUpdateInputs ==
  {UpdateData({"J2"}, {"bob"}, {})}
    \cup {UpdateData({}, {}, {<<Line(1, 1, c)>>}) : c \in {1, MaxPrice}}

NextCost ==
  \/ \E b \in BOOLEAN : SetPreferredPriceEnabled("c1", b)
  \/ \E d \in CostPriceUpdates : UpdateVariant(1, d, SuperAdmin)
  \/ DeleteVariant(1)
  \/ ImportFromCsv(<<[id |-> 1, regularPrice |-> 1, preferredPrice |-> 0]>>, "upsert")
  \/ UpsertOverageOverride("c1", 1, MaxRate)
  \/ UpdateStock(1, AdminC1, 1, MaxStock)
  \/ UpdateStockUpsert(1)
  \/ \E d \in CostCreateInputs : CreateJob(1, d, AdminC1)
  \/ CreateJobFindMany(1)
  \/ CreateJobCreate(1)
  \/ CreateJobCreateMany(1)
  \/ CreateJobCommit(1)
  \/ \E d \in CostUpdateInputs : UpdateJob(1, 1, d, AdminC1)
  \/ UpdateJobUpdate(1)
  \/ UpdateJobFindMany(1)
  \/ UpdateJobDeleteMany(1)
  \/ UpdateJobCreateMany(1)
  \/ UpdateJobCommit(1)
  \/ Rollback(1)
  \/ \E st \in {"ORDERED", "COMPLETED"} : UpdateJobStatus(1, st, AdminC1)
  \/ ArchiveJob(1, AdminC1)
  \/ GetJob(1, AdminC1)

SpecCost == Init /\ [][NextCost]_vars

(* ---------------- specification: the stock projection ----------------- *)
Days == 1..MaxDay

StockData(jobId, day, lines) ==
  [jobId |-> jobId, clientFirstName |-> "ann", installDate |-> day,
   jobTemplateName |-> {}, jobMaterials |-> lines]

StockCreateInputs ==
  {StockData(k, d, <<Line(1, q, 1)>>) : k \in JobIds, d \in {1, MaxDay}, q \in {-1, MaxQty}}
    \cup {StockData("J2", 1, <<Line(1, MaxQty, 1), Line(2, 1, 1)>>),
          StockData("J1", 1, <<Line(2, 0, 1)>>)}

NextStock ==
  \/ \E d \in StockCreateInputs : CreateJob(1, d, AdminC1)
  \/ CreateJobFindMany(1)
  \/ CreateJobCreate(1)
  \/ CreateJobCreateMany(1)
  \/ CreateJobCommit(1)
  \/ \E id \in JobUuids : ArchiveJob(id, AdminC1)
  \/ UpdateJobStatus(1, "ARCHIVED", AdminC1)
  \/ UpdateStock(2, AdminC1, 1, MaxStock)
  \/ UpdateStock(2, AdminC2, 1, MaxStock)
  \/ UpdateStockUpsert(2)
  \/ \E u \in {AdminC1, EmployeeC1}, st \in Days, en \in Days :
       \E jobs \in Perms(projectionJobs(u.companyId, st, en)) :
         GetStockProjection(u, u.companyId, st, en, jobs)

SpecStock == Init /\ [][NextStock]_vars

(* ------------- specification: concurrent override upserts ------------- *)
NextUpsert ==
  \/ \E p \in Procs, u \in {AdminC1, AdminC2}, v \in {1, 3}, q \in {1, MaxStock} :
       UpdateStock(p, u, v, q)
  \/ \E p \in Procs : UpdateStockUpsert(p)
  \/ \E p \in Procs : UpdateStockUpsertSelect(p)
  \/ \E p \in Procs : UpdateStockUpsertWrite(p)

SpecUpsert == Init /\ [][NextUpsert]_vars

(* ------------------ specification: access to the ledger --------------- *)
AccessCreateData == CreateData("J1", {}, <<Line(1, 1, 1)>>)
AccessUpdateData == UpdateData({}, {"bob"}, {<<Line(2, 1, 1)>>})
JobCallers == {AdminC1, AdminC2, EmployeeC1, ManagerC1, InstallerC1, SuperAdmin}

NextAccess ==
  \/ \E u \in JobCallers \cup {Anonymous} : PostJob(1, AccessCreateData, u)
  \/ CreateJob(1, AccessCreateData, SuperAdmin)
  \/ CreateJobFindMany(1)
  \/ CreateJobCreate(1)
  \/ CreateJobCreateMany(1)
  \/ CreateJobCommit(1)
  \/ \E id \in JobUuids, u \in {AdminC1, AdminC2, ManagerC1, SuperAdmin} :
       UpdateJob(1, id, AccessUpdateData, u)
  \/ UpdateJobUpdate(1)
  \/ UpdateJobFindMany(1)
  \/ UpdateJobDeleteMany(1)
  \/ UpdateJobCreateMany(1)
  \/ UpdateJobCommit(1)
  \/ \E id \in JobUuids, u \in {AdminC1, AdminC2} : ArchiveJob(id, u)
  \/ \E id \in JobUuids \cup {0}, u \in JobCallers \cup {ManagerC2} : GetJob(id, u)
  \/ \E id \in JobUuids \cup {0}, u \in JobCallers \cup {ManagerC2} :
       GetArchivedJobById(id, u)

SpecAccess == Init /\ [][NextAccess]_vars

(* ---------------- specification: templates and catalog ---------------- *)
VariantTypes == {"base coat", "top coat", "broadcast", "primer", NoType}

NewVariants ==
  {[type |-> t, regularPrice |-> MaxPrice, preferredPrice |-> 1] :
     t \in {"base coat", "broadcast", "primer", NoType}}

LinesFor(S) == [i \in DOMAIN SortedSeq(S) |-> Line(SortedSeq(S)[i], 1, 1)]

TemplateCreateInputs ==
  {CreateData("J1", t, LinesFor(S)) :
     t \in {{}, {"standard"}, {"custom"}}, S \in (SUBSET (1..MaxVariants)) \ {{}}}

NextTemplate ==
  \/ \E d \in NewVariants : CreateVariant(d, SuperAdmin)
  \/ DeleteVariant(1)
  \/ \E d \in TemplateCreateInputs : CreateJob(1, d, AdminC1)
  \/ CreateJobFindMany(1)
  \/ CreateJobCreate(1)
  \/ CreateJobCreateMany(1)
  \/ CreateJobCommit(1)
  \/ GetJob(1, AdminC1)

SpecTemplate == Init /\ [][NextTemplate]_vars

(* ------------- specification: tenancy and line uniqueness ------------- *)
\* CreateJobData with its optional companyId; the second line set names
\* variant 1 twice.
TenancyData(companyId, lines) ==
  [jobId |-> "J1", companyId |-> companyId, clientFirstName |-> "ann", installDate |-> 1,
   jobTemplateName |-> {}, jobMaterials |-> lines]

TenancyCreateInputs ==
  {TenancyData(c, l) : c \in {{}, {"c1"}, {"c2"}},
                       l \in {<<Line(1, 1, 1)>>, <<Line(1, 1, 1), Line(1, 2, 1)>>}}

TenancyUpdateInputs ==
  {UpdateData({}, {"bob"}, {}),
   UpdateData({}, {}, {<<Line(2, 1, 1)>>}),
   UpdateData({}, {}, {<<Line(2, 1, 1), Line(2, 2, 1)>>})}

NextTenancy ==
  \/ \E d \in TenancyCreateInputs, u \in {AdminC1, AdminC2} : CreateJob(1, d, u)
  \/ CreateJobFindMany(1)
  \/ CreateJobCreate(1)
  \/ CreateJobCreateMany(1)
  \/ CreateJobCommit(1)
  \/ \E id \in JobUuids, d \in TenancyUpdateInputs, u \in {AdminC1, AdminC2} :
       UpdateJob(1, id, d, u)
  \/ UpdateJobUpdate(1)
  \/ UpdateJobFindMany(1)
  \/ UpdateJobDeleteMany(1)
  \/ UpdateJobCreateMany(1)
  \/ UpdateJobCommit(1)
  \/ \E id \in JobUuids, u \in {AdminC1, AdminC2} : UpdateJobStatus(id, "ORDERED", u)
  \/ \E id \in JobUuids, u \in {AdminC1, AdminC2} : ArchiveJob(id, u)

SpecTenancy == Init /\ [][NextTenancy]_vars

(* ---------------------------- company invites -------------------------- *)
MaxInvites == 3

\* The email column of the Company rows.
companyEmail == [c \in Companies |-> IF c = "c1" THEN "c1@x.io" ELSE "c2@x.io"]

InviteEmails == {"ann@x.io", "bob@x.io", "c1@x.io"}

\* The token invite.create stores before the JWT is signed, and the JWT of an
\* invite, whose payload holds the invite id.
Placeholder == <<"PLACEHOLDER", 0>>
InviteJwt(id) == <<"jwt", id>>

\* where: { accepted: false, expiresAt: { gte: new Date() } }
Pending(i) == ~i.accepted /\ ~i.expired

\* InviteService.createCompanyInvite up to its second query: the company lookup
\* and the findFirst of a pending invite for the email.
CreateCompanyInvite(p, email) ==
  /\ pc[p] = "idle"
  /\ Cardinality(invite) + Cardinality({q \in Procs : pc[q] = "ci_create"}) < MaxInvites
  /\ IF \E c \in DOMAIN company : companyEmail[c] = email
     THEN Finish(p, [op |-> "createCompanyInvite", email |-> email] @@
                    errorHandler(PlainError("A company with this email already exists")))
     ELSE IF \E i \in invite : i.email = email /\ Pending(i)
     THEN Finish(p, [op |-> "createCompanyInvite", email |-> email] @@
                    errorHandler(PlainError("A pending invite already exists for this email")))
     ELSE /\ pc' = [pc EXCEPT ![p] = "ci_create"]
          /\ req' = [req EXCEPT ![p] = [op |-> "createCompanyInvite", email |-> email,
                                        inviteId |-> 0]]
          /\ UNCHANGED <<tx, resp>>
  /\ UNCHANGED <<company, materialVariant, companyOverageOverride,
                 companyQuantityOverride, job, jobMaterial>>
  /\ UNCHANGED authVars

\* createCompanyInvite, invite.create with token 'PLACEHOLDER': the unique index
\* Invite_token_key rejects it while another row still holds the placeholder.
CreateCompanyInviteCreate(p) ==
  /\ pc[p] = "ci_create"
  /\ IF \E i \in invite : i.token = Placeholder
     THEN /\ Finish(p, [op |-> "createCompanyInvite", email |-> req[p].email,
                        status |-> 409, message |-> "P2002 token"])
          /\ UNCHANGED invite
     ELSE /\ invite' = invite \cup
                 {[id |-> Cardinality(invite) + 1, email |-> req[p].email,
                   token |-> Placeholder, accepted |-> FALSE, expired |-> FALSE]}
          /\ pc' = [pc EXCEPT ![p] = "ci_update"]
          /\ req' = [req EXCEPT ![p].inviteId = Cardinality(invite) + 1]
          /\ UNCHANGED <<tx, resp>>
  /\ UNCHANGED <<company, materialVariant, companyOverageOverride,
                 companyQuantityOverride, job, jobMaterial>>
  /\ UNCHANGED <<userTable, tokenBlacklist, minted>>

\* createCompanyInvite, invite.update with the signed token, then the email,
\* whose failure is caught and logged, and the return.
CreateCompanyInviteUpdate(p) ==
  /\ pc[p] = "ci_update"
  /\ invite' = {IF i.id = req[p].inviteId THEN [i EXCEPT !.token = InviteJwt(i.id)] ELSE i :
                  i \in invite}
  /\ Finish(p, [op |-> "createCompanyInvite", email |-> req[p].email, status |-> 201,
                message |-> "Company invite created and email sent successfully"])
  /\ UNCHANGED <<company, materialVariant, companyOverageOverride,
                 companyQuantityOverride, job, jobMaterial>>
  /\ UNCHANGED <<userTable, tokenBlacklist, minted>>

\* The clock passes the expiresAt of an invite.
ExpireInvite(id) ==
  /\ \E i \in invite : i.id = id /\ ~i.expired
  /\ invite' = {IF i.id = id THEN [i EXCEPT !.expired = TRUE] ELSE i : i \in invite}
  /\ UNCHANGED <<company, materialVariant, companyOverageOverride,
                 companyQuantityOverride, job, jobMaterial, pc, req, tx, resp>>
  /\ UNCHANGED <<userTable, tokenBlacklist, minted>>

NextInvite ==
  \/ \E p \in Procs, e \in InviteEmails : CreateCompanyInvite(p, e)
  \/ \E p \in Procs : CreateCompanyInviteCreate(p)
  \/ \E p \in Procs : CreateCompanyInviteUpdate(p)
  \/ \E id \in 1..MaxInvites : ExpireInvite(id)

SpecInvite == Init /\ [][NextInvite]_vars

(* -------------------------------- users -------------------------------- *)
UserEmails == {"ann@x.io", "bob@x.io"}

\* The id the store gives a new User row: one no row and no open transaction holds.
NewUserId ==
  CHOOSE n \in 1..(Cardinality(userTable) + Cardinality(Procs) + 1) :
    /\ \A u \in userTable : u.id # n
    /\ \A q \in Procs : pc[q] = "ct_email" => req[q].userId # n
    /\ \A m \in 1..n : (m # n) =>
         \/ \E u \in userTable : u.id = m
         \/ \E q \in Procs : pc[q] = "ct_email" /\ req[q].userId = m

\* An open transaction of another request holds an uncommitted User row with
\* this email: an insert of the same email waits on User_email_key.
UncommittedEmail(p, email) ==
  \E q \in Procs \ {p} : pc[q] = "ct_email" /\ req[q].email = email

\* UsersService.createUser: the duplicate check outside the transaction.
CreateUser(p, email) ==
  /\ pc[p] = "idle"
  /\ IF \E u \in userTable : u.email = email
     THEN Finish(p, [op |-> "createUser", email |-> email] @@
                    errorHandler(PlainError("User with this email already exists")))
     ELSE /\ pc' = [pc EXCEPT ![p] = "cu_create"]
          /\ req' = [req EXCEPT ![p] = [op |-> "createUser", email |-> email, userId |-> 0]]
          /\ UNCHANGED <<tx, resp>>
  /\ UNCHANGED <<company, materialVariant, companyOverageOverride,
                 companyQuantityOverride, job, jobMaterial>>
  /\ UNCHANGED authVars

\* createUser: the transaction holding only user.create, committed at once. The
\* unique index User_email_key rejects a second row with the email.
CreateUserCreate(p) ==
  /\ pc[p] = "cu_create"
  /\ ~UncommittedEmail(p, req[p].email)
  /\ IF \E u \in userTable : u.email = req[p].email
     THEN /\ Finish(p, [op |-> "createUser", email |-> req[p].email,
                        status |-> 409, message |-> "P2002 email"])
          /\ UNCHANGED userTable
     ELSE /\ userTable' = userTable \cup
                 {[id |-> NewUserId, email |-> req[p].email, isActive |-> TRUE]}
          /\ pc' = [pc EXCEPT ![p] = "cu_email"]
          /\ req' = [req EXCEPT ![p].userId = NewUserId]
          /\ UNCHANGED <<tx, resp>>
  /\ UNCHANGED <<company, materialVariant, companyOverageOverride,
                 companyQuantityOverride, job, jobMaterial>>
  /\ UNCHANGED <<invite, tokenBlacklist, minted>>

\* createUser: the try block, the company lookup and sendNewUserCredentialsEmail.
\* sent is FALSE when anything in the block throws.
CreateUserSendEmail(p, sent) ==
  /\ pc[p] = "cu_email"
  /\ IF sent
     THEN Finish(p, [op |-> "createUser", email |-> req[p].email, status |-> 201,
                     message |-> "created"])
     ELSE /\ pc' = [pc EXCEPT ![p] = "cu_delete"]
          /\ UNCHANGED <<req, tx, resp>>
  /\ UNCHANGED <<company, materialVariant, companyOverageOverride,
                 companyQuantityOverride, job, jobMaterial>>
  /\ UNCHANGED authVars

\* A catch block that rethrows without deleting the row it created.
CreateUserNoDelete(p) ==
  /\ pc[p] = "cu_delete"
  /\ Finish(p, [op |-> "createUser", email |-> req[p].email] @@
               errorHandler(PlainError(
                 "Failed to send credentials email. User creation rolled back. Please try again.")))
  /\ UNCHANGED <<company, materialVariant, companyOverageOverride,
                 companyQuantityOverride, job, jobMaterial>>
  /\ UNCHANGED authVars

\* createUser: the catch block deletes the created row by id and throws.
CreateUserDelete(p) ==
  /\ pc[p] = "cu_delete"
  /\ userTable' = {u \in userTable : u.id # req[p].userId}
  /\ Finish(p, [op |-> "createUser", email |-> req[p].email] @@
               errorHandler(PlainError(
                 "Failed to send credentials email. User creation rolled back. Please try again.")))
  /\ UNCHANGED <<company, materialVariant, companyOverageOverride,
                 companyQuantityOverride, job, jobMaterial>>
  /\ UNCHANGED <<invite, tokenBlacklist, minted>>

\* The transactional createUser: the duplicate check inside the transaction.
CreateUserTx(p, email) ==
  /\ pc[p] = "idle"
  /\ IF \E u \in userTable : u.email = email
     THEN Finish(p, [op |-> "createUserTx", email |-> email] @@
                    errorHandler(PlainError("User with this email already exists")))
     ELSE /\ pc' = [pc EXCEPT ![p] = "ct_create"]
          /\ req' = [req EXCEPT ![p] = [op |-> "createUserTx", email |-> email, userId |-> 0]]
          /\ UNCHANGED <<tx, resp>>
  /\ UNCHANGED <<company, materialVariant, companyOverageOverride,
                 companyQuantityOverride, job, jobMaterial>>
  /\ UNCHANGED authVars

\* The transactional createUser: tx.user.create, invisible until the commit.
CreateUserTxCreate(p) ==
  /\ pc[p] = "ct_create"
  /\ ~UncommittedEmail(p, req[p].email)
  /\ IF \E u \in userTable : u.email = req[p].email
     THEN Finish(p, [op |-> "createUserTx", email |-> req[p].email,
                     status |-> 409, message |-> "P2002 email"])
     ELSE /\ pc' = [pc EXCEPT ![p] = "ct_email"]
          /\ req' = [req EXCEPT ![p].userId = NewUserId]
          /\ UNCHANGED <<tx, resp>>
  /\ UNCHANGED <<company, materialVariant, companyOverageOverride,
                 companyQuantityOverride, job, jobMaterial>>
  /\ UNCHANGED authVars

\* The transactional createUser: the email is sent inside the callback; when it
\* throws the transaction rolls back, otherwise the row is committed.
CreateUserTxSendEmail(p, sent) ==
  /\ pc[p] = "ct_email"
  /\ IF sent
     THEN /\ userTable' = userTable \cup
                 {[id |-> req[p].userId, email |-> req[p].email, isActive |-> TRUE]}
          /\ Finish(p, [op |-> "createUserTx", email |-> req[p].email, status |-> 201,
                        message |-> "created"])
     ELSE /\ UNCHANGED userTable
          /\ Finish(p, [op |-> "createUserTx", email |-> req[p].email] @@
                       errorHandler(PlainError("Failed to send email")))
  /\ UNCHANGED <<company, materialVariant, companyOverageOverride,
                 companyQuantityOverride, job, jobMaterial>>
  /\ UNCHANGED <<invite, tokenBlacklist, minted>>

NextUsers ==
  \/ \E p \in Procs, e \in UserEmails : CreateUser(p, e)
  \/ \E p \in Procs : CreateUserCreate(p)
  \/ \E p \in Procs, sent \in BOOLEAN : CreateUserSendEmail(p, sent)
  \/ \E p \in Procs : CreateUserDelete(p)
  \/ \E p \in Procs, e \in UserEmails : CreateUserTx(p, e)
  \/ \E p \in Procs : CreateUserTxCreate(p)
  \/ \E p \in Procs, sent \in BOOLEAN : CreateUserTxSendEmail(p, sent)

SpecUsers == Init /\ [][NextUsers]_vars

(* ------------------------------- tokens -------------------------------- *)
MaxTokens == 3

\* The account every token of the model is signed for (decoded.userId).
TokenUserId == 1

AccessToken(n) == <<"access", n>>
RefreshTokenOf(n) == <<"refresh", n>>

\* prisma.tokenBlacklist.findUnique({ where: { token } }).
isBlacklisted(token) == \E b \in tokenBlacklist : b.token = token

\* AuthService.login with valid credentials: createTokens signs a token pair.
Login ==
  /\ Cardinality(minted) +
       Cardinality({q \in Procs : pc[q] \in {"rt_findUser", "rt_blacklist"}}) < MaxTokens
  /\ \E u \in userTable : u.id = TokenUserId
  /\ minted' = minted \cup {[token |-> Cardinality(minted) + 1, from |-> 0]}
  /\ resp' = [op |-> "login", status |-> 200, token |-> Cardinality(minted) + 1,
              message |-> "Login successful"]
  /\ UNCHANGED <<company, materialVariant, companyOverageOverride,
                 companyQuantityOverride, job, jobMaterial, pc, req, tx>>
  /\ UNCHANGED <<invite, userTable, tokenBlacklist>>

\* AuthService.refreshToken: the blacklist lookup, then verifyRefreshToken.
RefreshToken(p, n) ==
  /\ pc[p] = "idle"
  /\ Cardinality(minted) +
       Cardinality({q \in Procs : pc[q] \in {"rt_findUser", "rt_blacklist"}}) < MaxTokens
  /\ IF isBlacklisted(RefreshTokenOf(n))
     THEN Finish(p, [op |-> "refreshToken", token |-> n] @@
                    errorHandler(PlainError("Refresh token has been revoked")))
     ELSE IF ~\E m \in minted : m.token = n
     THEN Finish(p, [op |-> "refreshToken", token |-> n] @@
                    errorHandler(PlainError("Invalid refresh token")))
     ELSE /\ pc' = [pc EXCEPT ![p] = "rt_findUser"]
          /\ req' = [req EXCEPT ![p] = [op |-> "refreshToken", token |-> n]]
          /\ UNCHANGED <<tx, resp>>
  /\ UNCHANGED <<company, materialVariant, companyOverageOverride,
                 companyQuantityOverride, job, jobMaterial>>
  /\ UNCHANGED authVars

\* refreshToken: the user lookup and the active checks.
RefreshTokenFindUser(p) ==
  /\ pc[p] = "rt_findUser"
  /\ IF ~\E u \in userTable : u.id = TokenUserId
     THEN Finish(p, [op |-> "refreshToken", token |-> req[p].token] @@
                    errorHandler(PlainError("User not found")))
     ELSE IF ~(CHOOSE u \in userTable : u.id = TokenUserId).isActive
     THEN Finish(p, [op |-> "refreshToken", token |-> req[p].token] @@
                    errorHandler(PlainError("User account is disabled")))
     ELSE /\ pc' = [pc EXCEPT ![p] = "rt_blacklist"]
          /\ UNCHANGED <<req, tx, resp>>
  /\ UNCHANGED <<company, materialVariant, companyOverageOverride,
                 companyQuantityOverride, job, jobMaterial>>
  /\ UNCHANGED authVars

\* A rotation whose blacklist insert has no unique index behind it.
RefreshTokenRotateNoIndex(p) ==
  /\ pc[p] = "rt_blacklist"
  /\ tokenBlacklist' = tokenBlacklist \cup
       {[token |-> RefreshTokenOf(req[p].token), reason |-> "Token refresh"]}
  /\ minted' = minted \cup {[token |-> Cardinality(minted) + 1, from |-> req[p].token]}
  /\ Finish(p, [op |-> "refreshToken", token |-> req[p].token, status |-> 200,
                message |-> "Tokens refreshed successfully"])
  /\ UNCHANGED <<company, materialVariant, companyOverageOverride,
                 companyQuantityOverride, job, jobMaterial>>
  /\ UNCHANGED <<invite, userTable>>

\* refreshToken: tokenBlacklist.create for the old token, which the unique index
\* TokenBlacklist_token_key rejects when the token is already listed, then
\* createTokens signs the new pair.
RefreshTokenRotate(p) ==
  /\ pc[p] = "rt_blacklist"
  /\ IF isBlacklisted(RefreshTokenOf(req[p].token))
     THEN /\ Finish(p, [op |-> "refreshToken", token |-> req[p].token,
                        status |-> 409, message |-> "P2002 token"])
          /\ UNCHANGED <<tokenBlacklist, minted>>
     ELSE /\ tokenBlacklist' = tokenBlacklist \cup
               {[token |-> RefreshTokenOf(req[p].token), reason |-> "Token refresh"]}
          /\ minted' = minted \cup
               {[token |-> Cardinality(minted) + 1, from |-> req[p].token]}
          /\ Finish(p, [op |-> "refreshToken", token |-> req[p].token, status |-> 200,
                        message |-> "Tokens refreshed successfully"])
  /\ UNCHANGED <<company, materialVariant, companyOverageOverride,
                 companyQuantityOverride, job, jobMaterial>>
  /\ UNCHANGED <<invite, userTable>>

\* AuthService.logout: tokenBlacklist.create for the access token.
Logout(p, access, refresh) ==
  /\ pc[p] = "idle"
  /\ \E m \in minted : m.token = access
  /\ \A r \in refresh : \E m \in minted : m.token = r
  /\ IF isBlacklisted(AccessToken(access))
     THEN /\ Finish(p, [op |-> "logout", status |-> 409, message |-> "P2002 token"])
          /\ UNCHANGED tokenBlacklist
     ELSE /\ tokenBlacklist' = tokenBlacklist \cup
               {[token |-> AccessToken(access), reason |-> "Logout"]}
          /\ IF refresh = {}
             THEN Finish(p, [op |-> "logout", status |-> 200,
                             message |-> "Logged out successfully"])
             ELSE /\ pc' = [pc EXCEPT ![p] = "lo_refresh"]
                  /\ req' = [req EXCEPT ![p] =
                               [op |-> "logout", token |-> CHOOSE r \in refresh : TRUE]]
                  /\ UNCHANGED <<tx, resp>>
  /\ UNCHANGED <<company, materialVariant, companyOverageOverride,
                 companyQuantityOverride, job, jobMaterial>>
  /\ UNCHANGED <<invite, userTable, minted>>

\* logout: tokenBlacklist.create for the refresh token the request names.
LogoutRefresh(p) ==
  /\ pc[p] = "lo_refresh"
  /\ IF isBlacklisted(RefreshTokenOf(req[p].token))
     THEN /\ Finish(p, [op |-> "logout", status |-> 409, message |-> "P2002 token"])
          /\ UNCHANGED tokenBlacklist
     ELSE /\ tokenBlacklist' = tokenBlacklist \cup
               {[token |-> RefreshTokenOf(req[p].token), reason |-> "Logout"]}
          /\ Finish(p, [op |-> "logout", status |-> 200, token |-> req[p].token,
                        message |-> "Logged out successfully"])
  /\ UNCHANGED <<company, materialVariant, companyOverageOverride,
                 companyQuantityOverride, job, jobMaterial>>
  /\ UNCHANGED <<invite, userTable, minted>>

NextTokens ==
  \/ Login
  \/ \E p \in Procs, n \in 1..MaxTokens : RefreshToken(p, n)
  \/ \E p \in Procs : RefreshTokenFindUser(p)
  \/ \E p \in Procs : RefreshTokenRotate(p)
  \/ \E p \in Procs, a \in 1..MaxTokens, r \in {{}} \cup {{n} : n \in 1..MaxTokens} :
       Logout(p, a, r)
  \/ \E p \in Procs : LogoutRefresh(p)

SpecTokens == Init /\ [][NextTokens]_vars

(* ------------------------------ claims -------------------------------- *)
RowOf(rows, id) == {j \in rows : j.id = id}
LinesIn(rows, id) == {m \in rows : m.jobId = id}

\* C1: for every caller and variant the effectivePrice of getVariantById,
\* getMaterialVariants and getAllMaterialVariants is the variant's preferredPrice
\* when the caller is a company user whose company has preferredPriceEnabled, and
\* its regularPrice in every other case, whatever override rows exist.
PreferredTier(u) ==
  /\ u.role \in {"COMPANY", "EMPLOYEE"}
  /\ u.companyId # NoCompany
  /\ u.companyId \in DOMAIN company
  /\ company[u.companyId].preferredPriceEnabled

PriceOk(u, view) ==
  /\ PreferredTier(u) => view.effectivePrice = materialVariant[view.id].preferredPrice
  /\ ~PreferredTier(u) => view.effectivePrice = materialVariant[view.id].regularPrice
  /\ materialVariant[view.id].preferredPrice # materialVariant[view.id].regularPrice =>
       (view.effectivePrice = materialVariant[view.id].preferredPrice <=> PreferredTier(u))

C1_EffectivePriceByTier ==
  \A u \in Users :
    /\ \A v \in VariantIds : PriceOk(u, getVariantById(v, u)[1])
    /\ \A inc \in BOOLEAN :
         /\ \A i \in DOMAIN getMaterialVariants(inc, u) :
              PriceOk(u, getMaterialVariants(inc, u)[i])
         /\ \A i \in DOMAIN getAllMaterialVariants(inc, u) :
              PriceOk(u, getAllMaterialVariants(inc, u)[i])

\* C1 witness: a preferred-tier company user listed the variants while the company
\* had an overage and a quantity override, and got a preferred price that differs
\* from the regular one.
C1_Witness ==
  /\ resp.op = "getAllMaterialVariants"
  /\ PreferredTier(resp.user)
  /\ resp.body = getAllMaterialVariants(FALSE, resp.user)
  /\ \E o \in companyOverageOverride : o.companyId = resp.user.companyId
  /\ \E o \in companyQuantityOverride : o.companyId = resp.user.companyId
  /\ \E i \in DOMAIN resp.body :
       /\ resp.body[i].effectivePrice = materialVariant[resp.body[i].id].preferredPrice
       /\ resp.body[i].effectivePrice # materialVariant[resp.body[i].id].regularPrice

\* C2: when createJob commits, every line it writes has the costAtTime the
\* Pricing Resolver gives for the line's variant under the creating company's
\* tier flag, whatever cost the submitted line carries.
C2_CostAtTimeFromResolver ==
  [][\A p \in Procs :
       (pc[p] = "cj_commit" /\ pc'[p] = "idle" /\ resp'.status = 201) =>
         \A m \in jobMaterial' \ jobMaterial :
           m.costAtTime = getVariantById(m.variantId, req[p].user)[1].effectivePrice]_vars

\* C3: a ledger line keeps its costAtTime over every step that is not the commit
\* of an updateJob carrying jobMaterials for its job, and getJob by the owning
\* company's admin still returns the line.
ReplaceCommit(id) ==
  \E p \in Procs : /\ pc[p] = "uj_commit" /\ pc'[p] = "idle"
                   /\ req[p].id = id /\ req[p].data.jobMaterials # {}

C3_Step ==
  \A m \in jobMaterial :
    ~ReplaceCommit(m.jobId) =>
      /\ m \in jobMaterial'
      /\ \A u \in {AdminC1, SuperAdmin} :
           (\E j \in job : j.id = m.jobId /\ u.companyId \in {j.companyId, NoCompany}) =>
             /\ getJob(m.jobId, u)'.status = 200
             /\ m \in getJob(m.jobId, u)'.jobMaterials

C3_CostAtTimeFrozen == [][C3_Step]_vars

\* C3 witness: a line created at cost MaxPrice outlived an update of its variant's
\* catalog prices to 0.
C3_Witness ==
  /\ resp.op = "updateVariant" /\ resp.status = 200
  /\ \E m \in jobMaterial :
       /\ m.costAtTime = MaxPrice
       /\ materialVariant[m.variantId].regularPrice = 0
       /\ materialVariant[m.variantId].preferredPrice = 0

\* C5: every row of the projection has toOrder = max(0, requiredQuantity - onHand)
\* and toOrder >= 0, where requiredQuantity is the sum of quantityUsed over the
\* ledger lines of the variant in the company's jobs inside the window and onHand
\* is the company's quantity override of the variant, 0 when there is none.
RECURSIVE SumUsed(_)
SumUsed(lines) ==
  IF lines = {} THEN 0
  ELSE LET m == CHOOSE x \in lines : TRUE IN m.quantityUsed + SumUsed(lines \ {m})

RequiredQuantity(c, st, en, v) ==
  SumUsed({m \in jobMaterial :
             /\ m.variantId = v
             /\ \E j \in job : /\ j.id = m.jobId /\ j.companyId = c
                               /\ st <= j.installDate /\ j.installDate <= en})

OnHand(c, v) ==
  IF \E o \in companyQuantityOverride : o.companyId = c /\ o.variantId = v
  THEN (CHOOSE o \in companyQuantityOverride : o.companyId = c /\ o.variantId = v).quantity
  ELSE 0

C5_ToOrderFloored ==
  \A c \in Companies, st \in Days, en \in Days :
    st <= en =>
      \A jobs \in Perms(projectionJobs(c, st, en)) :
        \A i \in DOMAIN allProjections(c, jobs) :
          LET row == allProjections(c, jobs)[i] IN
          /\ row.toOrder >= 0
          /\ row.useQty = RequiredQuantity(c, st, en, row.variantId)
          /\ row.inStock = OnHand(c, row.variantId)
          /\ row.toOrder = Max(0, RequiredQuantity(c, st, en, row.variantId)
                                    - OnHand(c, row.variantId))

\* C5 witness: two jobs in the window use 3 each of variant 1, the override is 4,
\* and the projection returned required 6, on hand 4, to order 2.
C5_Witness ==
  /\ resp.op = "getStockProjection"
  /\ resp.data = <<[variantId |-> 1, inStock |-> 4, useQty |-> 6, toOrder |-> 2]>>
  /\ Cardinality(projectionJobs(resp.companyId, resp.startDate, resp.endDate)) = 2
  /\ \A m \in jobMaterial : m.quantityUsed = 3
  /\ OnHand(resp.companyId, 1) = 4

\* C6: a job whose status is ARCHIVED contributes to no requiredQuantity of the
\* projection.
RequiredNonArchived(c, st, en, v) ==
  SumUsed({m \in jobMaterial :
             /\ m.variantId = v
             /\ \E j \in job : /\ j.id = m.jobId /\ j.companyId = c
                               /\ j.status # "ARCHIVED"
                               /\ st <= j.installDate /\ j.installDate <= en})

C6_ArchivedJobsNotCounted ==
  \A c \in Companies, st \in Days, en \in Days :
    st <= en =>
      \A jobs \in Perms(projectionJobs(c, st, en)) :
        \A i \in DOMAIN allProjections(c, jobs) :
          allProjections(c, jobs)[i].useQty =
            RequiredNonArchived(c, st, en, allProjections(c, jobs)[i].variantId)

\* C8: there is at most one CompanyQuantityOverride row per (company, variant),
\* and after an upsert completes the row of its pair holds exactly the quantity
\* of that upsert.
C8_OneRowLastWriterWins ==
  /\ \A o1, o2 \in companyQuantityOverride :
       (o1.companyId = o2.companyId /\ o1.variantId = o2.variantId) => o1 = o2
  /\ (resp.op = "updateStock" /\ resp.status = 200) =>
       {o \in companyQuantityOverride :
          o.companyId = resp.companyId /\ o.variantId = resp.variantId}
         = {[companyId |-> resp.companyId, variantId |-> resp.variantId,
             quantity |-> resp.quantity]}

\* C8 witness: two upserts for one pair were in flight together, the second to
\* commit wrote MaxStock over the 1 of the first, and another pair has its row.
C8_Witness ==
  /\ resp.op = "updateStock" /\ resp.status = 200 /\ resp.quantity = MaxStock
  /\ \E p \in Procs : /\ pc[p] = "us_upsert"
                      /\ req[p].companyId = resp.companyId
                      /\ req[p].variantId = resp.variantId
                      /\ req[p].inStock = 1
  /\ Cardinality(companyQuantityOverride) = 2

\* C11: a COMPANY or EMPLOYEE caller reading an existing job of another company
\* (getJob, getArchivedJobById) gets a failure that says access is denied, that
\* differs from the answer given for a job id that does not exist, and that
\* carries no field of the job.
CompanyCallers == {u \in JobCallers \cup {ManagerC2} : u.role \in {"COMPANY", "EMPLOYEE"}}

DeniedNotMissing(r, missing) ==
  /\ r.status # 200
  /\ r.message = "Access denied: Job belongs to another company."
  /\ r.status # missing.status
  /\ r.message # missing.message
  /\ DOMAIN r = {"status", "message"}

C12_OwnerOrOperatorOnly ==
  /\ [](resp.op \in {"createJob", "updateJob"} /\ resp.status = 403
          => resp.user.role # "SUPERADMIN")
  /\ [][\A p \in Procs :
          (pc[p] = "idle" /\ pc'[p] = "uj_update") =>
            \/ req'[p].user.role = "SUPERADMIN"
            \/ req'[p].user.companyId = JobById(req'[p].id).companyId]_vars

\* C13: a job creation request is let through exactly for the company's admin
\* and for a production-manager employee: such a caller is never answered 401
\* or 403 by the route or the service, and no other caller gets past them.
MayCreateJobs(u) ==
  \/ u.role = "COMPANY"
  \/ u.role = "EMPLOYEE" /\ employeeTypeOf(u) = "PRODUCTION_MANAGER"

C13_CreateRolesAgree ==
  /\ [](resp.op \in {"postJob", "createJob"} /\ resp.status \in {401, 403}
          => ~MayCreateJobs(resp.user))
  /\ [][\A p \in Procs :
          (pc[p] = "idle" /\ pc'[p] = "cj_findMany") => MayCreateJobs(req'[p].user)]_vars

\* C14: createJob goes on to write a job only when every referenced variant
\* exists and is active; a soft-deleted variant is refused like an unknown id,
\* and soft-deleting a variant leaves the ledger lines that reference it.
C14_InactiveVariantRejected ==
  [][/\ \A p \in Procs :
          (pc[p] = "cj_findMany" /\ pc'[p] = "cj_create") =>
            \A i \in DOMAIN req[p].data.jobMaterials :
              /\ req[p].data.jobMaterials[i].variantId \in VariantIds
              /\ materialVariant[req[p].data.jobMaterials[i].variantId].isActive
     /\ (resp'.op = "deleteVariant" /\ resp' # resp) => jobMaterial' = jobMaterial]_vars

\* C15: when a template is named, createJob goes on to write a job only if the
\* template exists and, for every variant type (the missing type included), the
\* number of submitted lines of that type equals the template's required count,
\* which is 0 for a type the template does not name.
LineCount(lines, t) ==
  Cardinality({i \in DOMAIN lines :
                 /\ lines[i].variantId \in VariantIds
                 /\ materialVariant[lines[i].variantId].type = t})

RequiredCount(name, t) ==
  IF \E i \in DOMAIN jobTemplates[name] : jobTemplates[name][i].materialType = t
  THEN (CHOOSE r \in Range(jobTemplates[name]) : r.materialType = t).requiredCount
  ELSE 0

C15_TemplateExactMatch ==
  [][\A p \in Procs :
       (pc[p] = "cj_findMany" /\ pc'[p] = "cj_create"
          /\ req[p].data.jobTemplateName # {}) =>
         \A name \in req[p].data.jobTemplateName :
           /\ name \in DOMAIN jobTemplates
           /\ \A t \in VariantTypes :
                LineCount(req[p].data.jobMaterials, t) = RequiredCount(name, t)]_vars

\* C16: a createJob with template 'standard' whose lines hold 2 base coats and no
\* broadcast is rejected with the count mismatch of broadcast, expected 1 and
\* found 0, and writes nothing.
C16_MismatchNamesBroadcast ==
  [][\A p \in Procs :
       ( /\ pc[p] = "cj_findMany" /\ pc'[p] # pc[p]
         /\ req[p].data.jobTemplateName = {"standard"}
         /\ Cardinality(findManyVariants(req[p].data.jobMaterials))
              = Len(req[p].data.jobMaterials)
         /\ LineCount(req[p].data.jobMaterials, "base coat") = 2
         /\ LineCount(req[p].data.jobMaterials, "broadcast") = 0 ) =>
         /\ pc'[p] = "idle"
         /\ resp'.op = "createJob" /\ resp'.status = 400
         /\ resp'.detail = [materialType |-> "broadcast", expected |-> 1, found |-> 0]
         /\ UNCHANGED <<job, jobMaterial>>]_vars

\* C17 (as amended): every variant with a ledger line in the window of the
\* company's jobs has a row in the projection; when the company has no quantity
\* override row for it the row has onHand 0 and toOrder = max(0, requiredQuantity),
\* which is the requiredQuantity itself whenever that is not negative; override
\* rows of other companies do not count.
DemandVariants(c, st, en) ==
  {m.variantId : m \in {x \in jobMaterial :
     \E j \in job : /\ j.id = x.jobId /\ j.companyId = c
                    /\ st <= j.installDate /\ j.installDate <= en}}

HasOverride(c, v) == \E o \in companyQuantityOverride : o.companyId = c /\ o.variantId = v

C17_NoOverrideMeansZeroOnHand ==
  \A c \in Companies, st \in Days, en \in Days :
    st <= en =>
      \A jobs \in Perms(projectionJobs(c, st, en)) :
        \A v \in DemandVariants(c, st, en) :
          /\ \E i \in DOMAIN allProjections(c, jobs) : allProjections(c, jobs)[i].variantId = v
          /\ \A i \in DOMAIN allProjections(c, jobs) :
               LET row == allProjections(c, jobs)[i] IN
               (row.variantId = v /\ ~HasOverride(c, v)) =>
                 /\ row.inStock = 0
                 /\ row.toOrder = Max(0, RequiredQuantity(c, st, en, v))
                 /\ (RequiredQuantity(c, st, en, v) >= 0 =>
                       row.toOrder = RequiredQuantity(c, st, en, v))

\* C17 as stated: ... with onHand 0 and toOrder equal to the requiredQuantity.
C17_ToOrderEqualsRequired ==
  \A c \in Companies, st \in Days, en \in Days :
    st <= en =>
      \A jobs \in Perms(projectionJobs(c, st, en)) :
        \A i \in DOMAIN allProjections(c, jobs) :
          LET row == allProjections(c, jobs)[i] IN
          ~HasOverride(c, row.variantId) =>
            /\ row.inStock = 0
            /\ row.toOrder = RequiredQuantity(c, st, en, row.variantId)

\* C17 witness: the projection of c1 returned variant 1 with onHand 0 and toOrder
\* equal to the 3 required, while c1 has no override row for variant 1 and c2 has one.
C17_Witness ==
  /\ resp.op = "getStockProjection" /\ resp.companyId = "c1"
  /\ \E i \in DOMAIN resp.data :
       resp.data[i] = [variantId |-> 1, inStock |-> 0, useQty |-> 3, toOrder |-> 3]
  /\ ~HasOverride("c1", 1)
  /\ HasOverride("c2", 1)
  /\ RequiredQuantity("c1", resp.startDate, resp.endDate, 1) = 3

\* C18: the projection holds exactly the variants whose required quantity in the
\* window is not zero; no row has a required quantity of 0.
C18_OnlyNonzeroDemand ==
  \A c \in Companies, st \in Days, en \in Days :
    st <= en =>
      \A jobs \in Perms(projectionJobs(c, st, en)) :
        /\ \A i \in DOMAIN allProjections(c, jobs) : allProjections(c, jobs)[i].useQty # 0
        /\ {allProjections(c, jobs)[i].variantId : i \in DOMAIN allProjections(c, jobs)}
             = {v \in DemandVariants(c, st, en) : RequiredQuantity(c, st, en, v) # 0}

\* C19: the projection list is the same whatever order the store returns the
\* jobs in, and is sorted by variant id.
C19_DeterministicOrder ==
  \A c \in Companies, st \in Days, en \in Days :
    st <= en =>
      \A jobs1 \in Perms(projectionJobs(c, st, en)) :
        /\ \A jobs2 \in Perms(projectionJobs(c, st, en)) :
             allProjections(c, jobs1) = allProjections(c, jobs2)
        /\ \A i, k \in DOMAIN allProjections(c, jobs1) :
             i < k => allProjections(c, jobs1)[i].variantId
                        < allProjections(c, jobs1)[k].variantId

\* C20: the resolved view of a variant carries the company overage rate of the
\* caller's CompanyOverageOverride row, a rate of 0 included, and carries none
\* when the caller's company has no row for the variant (or the caller is no
\* company user), under either tier flag and whatever rows other variants have.
OverageRows(u, v) ==
  {o \in companyOverageOverride :
     /\ u.role \in {"COMPANY", "EMPLOYEE"}
     /\ o.companyId = u.companyId /\ o.variantId = v}

OverageOk(u, view) ==
  /\ OverageRows(u, view.id) = {} => view.companyOverageRate = Undefined
  /\ \A o \in OverageRows(u, view.id) : view.companyOverageRate = {o.overageRate}

C20_OverageAbsentOrPresent ==
  \A u \in Users :
    /\ \A v \in VariantIds : OverageOk(u, getVariantById(v, u)[1])
    /\ \A i \in DOMAIN getMaterialVariants(FALSE, u) :
         OverageOk(u, getMaterialVariants(FALSE, u)[i])
    /\ \A i \in DOMAIN getAllMaterialVariants(FALSE, u) :
         OverageOk(u, getAllMaterialVariants(FALSE, u)[i])

\* C20 witness: the admin of c1 resolved a variant whose c1 row has rate 0 and got
\* the rate 0, while the other variant of the batch has a nonzero c1 row and
\* company c2, which has no row, gets no rate for the same variant.
C20_Witness ==
  /\ resp.op = "getVariantById" /\ resp.status = 200 /\ resp.user = AdminC1
  /\ resp.body[1].companyOverageRate = {0}
  /\ \E o \in companyOverageOverride :
       o.companyId = "c1" /\ o.variantId # resp.id /\ o.overageRate = MaxRate
  /\ getVariantById(resp.id, AdminC2)[1].companyOverageRate = Undefined
  /\ company["c1"].preferredPriceEnabled

\* C9: when an updateJob carrying jobMaterials commits, every new line has the
\* costAtTime the Pricing Resolver gives for its variant under the company's tier
\* flag as of that call.
C9_ReplaceLinesReResolveCost ==
  [][\A p \in Procs :
       ( /\ pc[p] = "uj_commit" /\ pc'[p] = "idle" /\ resp'.status = 200
         /\ req[p].data.jobMaterials # {} ) =>
         \A m \in LinesIn(jobMaterial', req[p].id) :
           m.costAtTime = getVariantById(m.variantId, req[p].user)[1].effectivePrice]_vars

\* C4: createJob is all-or-nothing. While a createJob transaction is open none
\* of its rows is visible in the committed tables, every committed line has its
\* header, a createJob that ends in failure leaves both tables unchanged, and a
\* header becomes visible only together with its complete line set.
C4_NoPartialJobVisible ==
  /\ \A p \in Procs : pc[p] \in CreatePcs =>
       \A w \in tx[p].jobW : /\ \A j \in job : j.id # w.id
                             /\ \A m \in jobMaterial : m.jobId # w.id
  /\ \A m \in jobMaterial : \E j \in job : j.id = m.jobId

C4_Step ==
  /\ (resp'.op = "createJob" /\ resp'.status # 201) => UNCHANGED <<job, jobMaterial>>
  /\ \A j \in job' : (\A k \in job : k.id # j.id) =>
       \E p \in Procs :
         /\ pc[p] = "cj_commit"
         /\ LinesIn(jobMaterial', j.id) = jobMaterialsToCreate(j.id, req[p].data.jobMaterials)
         /\ LinesIn(jobMaterial', j.id) # {}

C4_CreateJobAtomic == [] C4_NoPartialJobVisible /\ [][C4_Step]_vars

\* C4 witness: a createJob was cancelled after its header and lines were written
\* inside the transaction, and the tables hold no row.
C4_Witness ==
  /\ resp.op = "createJob" /\ resp.status = 500 /\ resp.at = "cj_commit"
  /\ job = {} /\ jobMaterial = {}

\* C7: no two jobs of one company share a jobId; a createJob passes its duplicate
\* check only when the key is free, and a call that ends with a conflict changes
\* no row.
C7_Unique ==
  \A j1, j2 \in job :
    (j1.jobId = j2.jobId /\ j1.companyId = j2.companyId) => j1.id = j2.id

C7_Step ==
  /\ resp'.status = 409 => UNCHANGED <<job, jobMaterial>>
  /\ \A p \in Procs : (pc[p] = "idle" /\ pc'[p] = "cj_findMany") =>
       ~\E j \in job : /\ j.jobId = req'[p].data.jobId
                       /\ j.companyId = req'[p].user.companyId

C7_JobIdUniquePerCompany == [] C7_Unique /\ [][C7_Step]_vars

\* C7 witness: of two concurrent createJob calls with one jobId the loser failed
\* on the unique index, and a job with that key is committed.
C7_Witness ==
  /\ resp.op = "createJob" /\ resp.status = 409
  /\ resp.message = "P2002 jobId, companyId"
  /\ Cardinality(job) = 1

\* C10: line replacement is atomic and isolated. The committed header or line set
\* of an existing job changes only in the commit step of an updateJob on that
\* job, and then to the complete new header and the complete new line set; an
\* updateJob that ends in failure leaves both tables unchanged.
C10_Step ==
  /\ \A id \in JobUuids :
       ( /\ RowOf(job, id) # {}
         /\ \/ RowOf(job, id) # RowOf(job', id)
            \/ LinesIn(jobMaterial, id) # LinesIn(jobMaterial', id) ) =>
       \E p \in Procs :
         /\ pc[p] = "uj_commit" /\ req[p].id = id
         /\ RowOf(job', id) = {scalarUpdate(JobById(id), req[p].data)}
         /\ LinesIn(jobMaterial', id) =
              IF req[p].data.jobMaterials = {} THEN LinesIn(jobMaterial, id)
              ELSE jobMaterialsToCreate(id, NewLines(p))
  /\ (resp'.op = "updateJob" /\ resp'.status # 200) => UNCHANGED <<job, jobMaterial>>

C10_ReplaceLinesAtomic == [][C10_Step]_vars

\* C10 witness: an updateJob failed on an unknown variant after its header update,
\* and the job still has its first client name and its lines.
C10_Witness ==
  /\ resp.op = "updateJob"
  /\ resp.message = "One or more provided material variants not found."
  /\ \E j \in job : j.clientFirstName = "ann" /\ LinesIn(jobMaterial, j.id) # {}

\* C25: every new job is created with status PENDING, and a job that is ARCHIVED
\* is never moved to a non-archived status by a later updateJobStatus or
\* archiveJob.
C25_ArchivedIsTerminal ==
  [][ /\ \A j \in job' : RowOf(job, j.id) = {} => j.status = "PENDING"
      /\ \A j \in job : j.status = "ARCHIVED" =>
           \A k \in job' : k.id = j.id => k.status = "ARCHIVED" ]_vars

\* C23: the pricing tier is read from the Company row at each resolution, never
\* from the caller's token. The response of a getVariantById carries the price
\* of the tier the company has (every write replaces the last response, so the
\* flag it is compared with is the one the resolution saw), and in the state
\* right after the flag of a company changes, a resolution by any caller of that
\* company (whose token is older than the change) returns the new tier's price.
C23_Fresh ==
  (resp.op = "getVariantById" /\ resp.status = 200) =>
    resp.body[1].effectivePrice =
      IF PreferredTier(resp.user) THEN materialVariant[resp.id].preferredPrice
                                  ELSE materialVariant[resp.id].regularPrice

C23_Step ==
  company' # company =>
  \A c \in Companies :
    company'[c].preferredPriceEnabled # company[c].preferredPriceEnabled =>
      \A u \in Users : u.companyId = c =>
        \A v \in VariantIds :
          getVariantById(v, u)'[1].effectivePrice =
            IF company'[c].preferredPriceEnabled
            THEN materialVariant'[v].preferredPrice
            ELSE materialVariant'[v].regularPrice

C23_TierReadAtResolution == [] C23_Fresh /\ [][C23_Step]_vars

\* C23 witness: the flag of company c1 was switched on after the tokens were
\* minted, and the last getVariantById of its admin returned the preferred price,
\* which differs from the regular one.
C23_Witness ==
  /\ resp.op = "getVariantById" /\ resp.status = 200
  /\ resp.user = AdminC1
  /\ company["c1"].preferredPriceEnabled
  /\ resp.body[1].effectivePrice = materialVariant[resp.id].preferredPrice
  /\ resp.body[1].effectivePrice # materialVariant[resp.id].regularPrice

\* C24: resolution is read-only and idempotent. A getVariantById,
\* getMaterialVariants or getAllMaterialVariants step leaves the Company,
\* MaterialVariant, override and job tables unchanged, and as long as no write
\* intervenes (every write replaces the last response) a second resolution by
\* the same caller returns the output the first one returned.
ResolverOps == {"getVariantById", "getMaterialVariants", "getAllMaterialVariants"}

C24_Same ==
  /\ resp.op = "getVariantById" => resp.body = getVariantById(resp.id, resp.user)
  /\ resp.op = "getMaterialVariants" =>
       resp.body = getMaterialVariants(FALSE, resp.user)
  /\ resp.op = "getAllMaterialVariants" =>
       resp.body = getAllMaterialVariants(FALSE, resp.user)

C24_Step ==
  (resp'.op \in ResolverOps /\ UNCHANGED <<pc, req, tx>>) =>
    UNCHANGED <<company, materialVariant, companyOverageOverride,
                companyQuantityOverride, job, jobMaterial>>

JobOps == {"createJob", "updateJob", "updateJobStatus", "archiveJob"}

JobStep ==
  \/ resp' # resp /\ resp'.op \in JobOps
  \/ job' # job
  \/ jobMaterial' # jobMaterial
  \/ \E p \in Procs :
       /\ pc'[p] # pc[p]
       /\ (pc[p] \in CreatePcs \cup TxPcs \/ pc'[p] \in CreatePcs \cup TxPcs)

C21_Step ==
  /\ JobStep =>
       /\ UNCHANGED companyQuantityOverride
       /\ \A c \in Companies, v \in VariantIds :
            stockQuantity(c, v)' = stockQuantity(c, v)
  /\ companyQuantityOverride' # companyQuantityOverride =>
       /\ resp'.op = "updateStock" /\ resp'.status = 200
       /\ \E p \in Procs : pc[p] \in {"us_upsert", "us_write"} /\ pc'[p] = "idle"

C21_OverrideOnlyByUpsert == [][C21_Step]_vars

\* C21 witness: a createJob has just committed a line consuming variant 1 while
\* the company's override for that variant is still the upserted quantity.
C21_Witness ==
  /\ resp.op = "createJob" /\ resp.status = 201
  /\ \E m \in jobMaterial : m.variantId = 1 /\ m.quantityUsed > 0
  /\ \E o \in companyQuantityOverride :
       o.companyId = "c1" /\ o.variantId = 1 /\ o.quantity = MaxStock
  /\ stockQuantity("c1", 1) = MaxStock

\* C22: an updateJob whose data carries only jobMaterials leaves every header
\* field of the job unchanged (jobId, client name, installDate, status,
\* companyId, locationId, createdByUserId); only the line set differs.
LinesOnly(data) ==
  /\ data.jobId = {} /\ data.clientFirstName = {} /\ data.installDate = {}
  /\ data.jobMaterials # {}

C22_Step ==
  \A p \in Procs :
    ( /\ pc[p] = "uj_commit" /\ pc'[p] = "idle"
      /\ resp'.op = "updateJob" /\ resp'.status = 200
      /\ LinesOnly(req[p].data) ) =>
      /\ job' = job
      /\ LinesIn(jobMaterial', req[p].id) = jobMaterialsToCreate(req[p].id, NewLines(p))

C22_LinesOnlyKeepsHeader == [][C22_Step]_vars

\* C22 witness: a job whose lines were replaced by an updateJob still has the
\* header it was created with, and a line whose cost differs from the one line
\* cost of creation that it replaced.
C22_Witness ==
  /\ resp.op = "updateJob" /\ resp.status = 200
  /\ \E j \in job :
       /\ j.jobId = "J1" /\ j.clientFirstName = "ann" /\ j.installDate = 1
       /\ j.status = "ORDERED" /\ j.companyId = "c1"
       /\ \E m \in jobMaterial : m.jobId = j.id /\ m.costAtTime = 1

\* C28: a job has at most one ledger line per variant. A createJob or updateJob
\* whose line set names a variant id twice is rejected by the variant check (the
\* lookup returns fewer rows than lines), before any line is written: nothing is
\* persisted and the previous header and lines of the job stay as they were.
C28_OneLinePerVariant ==
  \A m1, m2 \in jobMaterial :
    (m1.jobId = m2.jobId /\ m1.variantId = m2.variantId) => m1 = m2

C28_Step ==
  \A p \in Procs :
    /\ ( /\ pc[p] = "cj_findMany" /\ pc'[p] # pc[p]
         /\ ~LinesUnique(req[p].data.jobMaterials) ) =>
         /\ pc'[p] = "idle" /\ tx'[p] = NoTx
         /\ resp'.op = "createJob" /\ resp'.status = 404
         /\ UNCHANGED <<job, jobMaterial>>
    /\ ( /\ pc[p] = "uj_findMany" /\ pc'[p] # pc[p]
         /\ ~LinesUnique(NewLines(p)) ) =>
         /\ pc'[p] = "idle" /\ tx'[p] = NoTx
         /\ resp'.op = "updateJob" /\ resp'.status = 404
         /\ UNCHANGED <<job, jobMaterial>>

C28_DuplicateVariantRejected == [] C28_OneLinePerVariant /\ [][C28_Step]_vars

\* C28 witness: an updateJob naming variant 2 twice was rejected, and the job
\* still has the line on variant 1 it was created with.
C28_Witness ==
  /\ resp.op = "updateJob" /\ resp.status = 404
  /\ resp.message = "One or more provided material variants not found."
  /\ \E j \in job :
       LinesIn(jobMaterial, j.id) = jobMaterialsToCreate(j.id, <<Line(1, 1, 1)>>)

\* C29: the companyId and locationId of every job are those of the
\* authenticated user who created it, whatever companyId the request data
\* carries, and the header or lines of an existing job change only through an
\* updateJob, updateJobStatus or archiveJob of a caller of the job's company.
TenancyUsers == {AdminC1, AdminC2}

C29_Owner ==
  \A j \in job :
    \E u \in TenancyUsers :
      /\ j.createdByUserId = u.userId
      /\ j.companyId = u.companyId
      /\ j.locationId = u.locationId

C29_Step ==
  /\ \A p \in Procs :
       (pc[p] = "cj_commit" /\ pc'[p] = "idle" /\ resp'.status = 201) =>
         \A j \in job' \ job :
           /\ j.companyId = req[p].user.companyId
           /\ j.locationId = req[p].user.locationId
  /\ \A id \in JobUuids :
       ( /\ RowOf(job, id) # {}
         /\ \/ RowOf(job', id) # RowOf(job, id)
            \/ LinesIn(jobMaterial', id) # LinesIn(jobMaterial, id) ) =>
         \/ \E p \in Procs :
              /\ pc[p] = "uj_commit" /\ pc'[p] = "idle" /\ req[p].id = id
              /\ req[p].user.companyId = JobById(id).companyId
         \/ /\ resp'.op \in {"updateJobStatus", "archiveJob"} /\ resp'.status = 200
            /\ resp'.user.companyId = JobById(id).companyId
            /\ UNCHANGED <<pc, jobMaterial>>

C29_JobStaysInCreatorsCompany == [] C29_Owner /\ [][C29_Step]_vars

\* C29 witness: the admin of c1 is about to commit a createJob whose data names
\* company c2, and the header row it wrote is of company c1; the admin's
\* archiveJob on the one committed job, which is of c2, was denied and that job
\* is still PENDING.
C29_Witness ==
  /\ pc[1] = "cj_commit"
  /\ req[1].user = AdminC1 /\ req[1].data.companyId = {"c2"}
  /\ \A j \in tx[1].jobW : j.companyId = "c1" /\ j.locationId = "l1"
  /\ tx[1].jobW # {}
  /\ resp.op = "archiveJob" /\ resp.status = 403 /\ resp.message = "Access denied."
  /\ \A j \in job : j.companyId = "c2" /\ j.status = "PENDING"
  /\ job # {}

\* C26: there is at most one pending (not accepted, not expired) company invite
\* per email, also when two createCompanyInvite calls for one email run
\* concurrently, and a createCompanyInvite for an email that has a pending
\* invite is rejected.
C26_OnePending ==
  \A i1, i2 \in invite :
    (i1.email = i2.email /\ Pending(i1) /\ Pending(i2)) => i1.id = i2.id

C26_Step ==
  \A p \in Procs :
    (pc[p] = "idle" /\ pc'[p] = "ci_create") =>
      ~\E i \in invite : i.email = req'[p].email /\ Pending(i)

C26_OnePendingInvitePerEmail == [] C26_OnePending /\ [][C26_Step]_vars

\* C27: when sending the credentials email fails during createUser the call
\* fails and no user row with that email exists afterwards, so a later
\* createUser with the same email is not rejected as a duplicate; when the call
\* succeeds exactly one user row with that email exists.
CreateUserFailed ==
  "Failed to send credentials email. User creation rolled back. Please try again."

C27_UniqueEmail ==
  \A u1, u2 \in userTable : u1.email = u2.email => u1.id = u2.id

C27_Step ==
  \A p \in Procs :
    /\ (pc[p] \in {"cu_email", "cu_delete", "ct_email"} /\ pc'[p] = "idle") =>
         /\ resp'.email = req[p].email
         /\ resp'.status = 201 =>
              Cardinality({u \in userTable' : u.email = req[p].email}) = 1
         /\ resp'.status # 201 =>
              /\ pc[p] # "cu_email"
              /\ ~\E u \in userTable' : u.email = req[p].email
    /\ (pc[p] = "cu_email" /\ pc'[p] # "cu_email") =>
         resp'.status = 201 \/ pc'[p] = "cu_delete"

C30_AtMostOnce ==
  /\ \A m1, m2 \in minted : (m1.from = m2.from /\ m1.from # 0) => m1 = m2
  /\ \A m \in minted : m.from # 0 => isBlacklisted(RefreshTokenOf(m.from))

C30_Step ==
  /\ tokenBlacklist \subseteq tokenBlacklist'
  /\ \A p \in Procs :
       /\ (pc[p] = "idle" /\ pc'[p] = "rt_findUser") =>
            ~isBlacklisted(RefreshTokenOf(req'[p].token))
       /\ \A n \in 1..MaxTokens :
            ( /\ pc[p] = "idle" /\ pc' = pc /\ resp' # resp
              /\ resp'.op = "refreshToken" /\ resp'.token = n
              /\ isBlacklisted(RefreshTokenOf(n)) ) =>
              /\ resp'.message = "Refresh token has been revoked"
              /\ UNCHANGED <<minted, tokenBlacklist>>
       /\ \A n \in 1..MaxTokens :
            ( /\ pc[p] = "rt_blacklist" /\ req[p].token = n
              /\ pc'[p] = "idle" /\ resp'.status = 200 ) =>
              /\ ~isBlacklisted(RefreshTokenOf(n))
              /\ isBlacklisted(RefreshTokenOf(n))'
       /\ \A n \in 1..MaxTokens :
            ( /\ pc[p] = "lo_refresh" /\ req[p].token = n
              /\ pc'[p] = "idle" /\ resp'.status = 200 ) =>
              isBlacklisted(RefreshTokenOf(n))'

C30_RefreshTokenSingleUse == [] C30_AtMostOnce /\ [][C30_Step]_vars

\* C30 witness: of two concurrent refreshToken calls with token 1 one signed a
\* new pair and the other failed on the blacklist's unique index.
C30_Witness ==
  /\ resp.op = "refreshToken" /\ resp.token = 1 /\ resp.status = 409
  /\ Cardinality({m \in minted : m.from = 1}) = 1
  /\ isBlacklisted(RefreshTokenOf(1))

====
